---- MODULE Spec2Model ----
EXTENDS Integers, Sequences, FiniteSets, TLC

(***************************************************************************)
(* NarrativeShield-AI backend: the analysis pipeline (ingestion, cleaning, *)
(* lexicon scoring, narrative repetition, risk scoring) and the            *)
(* AnalysisService that runs it and caches the last result.                *)
(*                                                                         *)
(* A Python str is a sequence of characters; a character is a one-element  *)
(* string.  A DataFrame is a record [columns, rows]: columns is the set of *)
(* column names and rows the sequence of rows, each a record.              *)
(* Fixed-point units: lexicon weights and scores in tenths, similarities   *)
(* in thousandths, sentiment compounds in 1e-4, risk components in 1e-4 of *)
(* a point, risk_score in hundredths of a point.                           *)
(***************************************************************************)

VARIABLES
    result,   \* AnalysisService._result: None or the id of an AnalysisResult
    heap,     \* the AnalysisResult objects alive, by id
    allocated,\* number of AnalysisResult objects constructed so far
    pc,       \* per request thread: its position in its handler
    req,      \* per request thread: the request being handled
    local,    \* per request thread: the handler's local variables
    resp,     \* the response sent last
    served,   \* number of requests accepted so far
    lastOk,   \* history: id of the AnalysisResult of the last analyze that returned
    call,     \* pipeline function called on its own: its arguments
    df,       \* pipeline function called on its own: the frame it works on / returns
    at,       \* pipeline function called on its own: position
    rng,      \* state of the `random` module's shared generator
    ANALYZER, \* intelligence._ANALYZER: None or the id of the analyzer instance
    built,    \* history: number of SentimentIntensityAnalyzer objects constructed
    prev,     \* history: arguments and result of the run_bot_detection call before
    active_sessions,    \* SessionService._active_sessions: token -> SessionUser
    translate_requests, \* main._translate_requests: client key -> deque of times
    memory_reactions,   \* InteractionStore._memory_reactions: (user, article) -> record
    memory_users,       \* UserStore._memory_users: user id -> user document
    cache_memory,       \* SarvamTranslator._cache_memory: cache key -> translated text
    time_time           \* the clock: what time.time() returned last

storeVars == <<active_sessions, translate_requests, memory_reactions, memory_users,
               cache_memory, time_time>>
vars == <<result, heap, allocated, pc, req, local, resp, served, lastOk, call, df, at,
          rng, ANALYZER, built, prev, storeVars>>
svcVars == <<result, heap, allocated, pc, req, local, resp, served, lastOk>>
modVars == <<rng, ANALYZER, built, prev, storeVars>>
fnVars == <<call, df, at, modVars>>

----------------------------------------------------------------------------
(* Characters and strings                                                  *)

LowerLetters == <<"a","b","c","d","e","f","g","h","i","j","k","l","m",
                  "n","o","p","q","r","s","t","u","v","w","x","y","z">>
UpperLetters == <<"A","B","C","D","E","F","G","H","I","J","K","L","M",
                  "N","O","P","Q","R","S","T","U","V","W","X","Y","Z">>
Digits == {"0","1","2","3","4","5","6","7","8","9"}
Range(s) == {s[i] : i \in DOMAIN s}
AlnumChars == Range(LowerLetters) \cup Range(UpperLetters) \cup Digits

\* One code point of the emoji ranges of EMOJI_RE.
EmojiChar == "U+1F600"

\* \s of Python's re on str.
IsSpace(c) == c \in {" ", "\t", "\n", "\r"}
\* [a-zA-Z0-9]
IsAlnum(c) == c \in AlnumChars
\* \w of Python's re on str (the emoji code points are not word characters).
IsWordChar(c) == IsAlnum(c) \/ c = "_"

\* str.lower() on one character.
LowerChar(c) ==
    IF c \in Range(UpperLetters)
    THEN LowerLetters[CHOOSE i \in DOMAIN UpperLetters : UpperLetters[i] = c]
    ELSE c
\* str.lower()
Lower(s) == [i \in DOMAIN s |-> LowerChar(s[i])]

\* str.strip(): leading and trailing whitespace removed.
Strip(s) ==
    LET keep == {i \in DOMAIN s : ~IsSpace(s[i])}
    IN  IF keep = {} THEN <<>>
        ELSE LET lo == CHOOSE i \in keep : \A j \in keep : i <= j
                 hi == CHOOSE i \in keep : \A j \in keep : j <= i
             IN  SubSeq(s, lo, hi)

\* re.sub(r"\s+", " ", s): every maximal run of whitespace becomes one space.
RECURSIVE CollapseFrom(_, _)
CollapseFrom(s, i) ==
    IF i > Len(s) THEN <<>>
    ELSE IF IsSpace(s[i])
         THEN IF i > 1 /\ IsSpace(s[i - 1])
              THEN CollapseFrom(s, i + 1)
              ELSE <<" ">> \o CollapseFrom(s, i + 1)
         ELSE <<s[i]>> \o CollapseFrom(s, i + 1)
CollapseWhitespace(s) == CollapseFrom(s, 1)

----------------------------------------------------------------------------
(* pipeline/ingestion.py                                                   *)

\* Python None for a column name, and pandas' missing value in a cell.
NoColumn == "<None>"
NA == <<"<NA>">>

TITLE_COLUMN_CANDIDATES == <<"title", "headline">>
TEXT_COLUMN_CANDIDATES == <<"text", "content", "article">>
DATE_COLUMN_CANDIDATES == <<"date", "published_at", "publish_date", "timestamp">>

\* str.lower() on the column names the sources below use.
ColumnLower ==
    [c \in {"title", "Title", "TITLE", "headline", "Headline", "text", "Text",
            "content", "article", "date", "Date", "timestamp", "published_at",
            "publish_date", "body", "id", "label"} |->
        CASE c \in {"Title", "TITLE"} -> "title"
          [] c = "Headline" -> "headline"
          [] c = "Text" -> "text"
          [] c = "Date" -> "date"
          [] OTHER -> c]

\* lowered_map = {column.lower(): column for column in columns}: of several
\* columns with one lower-cased name the last one wins; the first candidate
\* present in the map is resolved.
ResolveColumn(columns, candidates) ==
    LET lowered_map(name) ==
            LET at_ == {i \in DOMAIN columns : ColumnLower[columns[i]] = name}
            IN  IF at_ = {} THEN NoColumn
                ELSE columns[CHOOSE i \in at_ : \A j \in at_ : j <= i]
        hits == {k \in DOMAIN candidates : lowered_map(candidates[k]) # NoColumn}
    IN  IF hits = {} THEN NoColumn
        ELSE lowered_map(candidates[CHOOSE k \in hits : \A j \in hits : k <= j])

\* fillna(""): a missing cell becomes the empty string.
FillNa(cell) == IF cell = NA THEN <<>> ELSE cell

\* (title + " " + text).str.replace(r"\s+", " ").str.strip()
AnalysisText(title, text) == Strip(CollapseWhitespace(title \o <<" ">> \o text))

\* _process_chunk: fill, build analysis_text, drop the rows whose
\* analysis_text is empty, keep title, text, analysis_text (and date).
ProcessChunk(chunk, title_col, text_col, date_col) ==
    LET norm(r) ==
            LET t == FillNa(r[title_col])
                x == FillNa(r[text_col])
                base == [title |-> t, text |-> x, analysis_text |-> AnalysisText(t, x)]
            IN  IF date_col # NoColumn THEN base @@ [date |-> r[date_col]] ELSE base
        framed == [i \in DOMAIN chunk |-> norm(chunk[i])]
        NonEmpty(r) == r.analysis_text # <<>>
    IN  [columns |-> {"title", "text", "analysis_text"}
                     \cup (IF date_col # NoColumn THEN {"date"} ELSE {}),
         rows |-> SelectSeq(framed, NonEmpty)]

\* pd.read_csv(..., chunksize=n): the rows in consecutive chunks of n rows.
RECURSIVE ReadChunks(_, _)
ReadChunks(rows, n) ==
    IF Len(rows) = 0 THEN <<>>
    ELSE IF Len(rows) <= n THEN <<rows>>
    ELSE <<SubSeq(rows, 1, n)>> \o ReadChunks(SubSeq(rows, n + 1, Len(rows)), n)

\* pd.concat(processed, ignore_index=True)
RECURSIVE Concat(_)
Concat(frames) ==
    IF Len(frames) = 0 THEN [columns |-> {"title", "text", "analysis_text"}, rows |-> <<>>]
    ELSE IF Len(frames) = 1 THEN frames[1]
    ELSE LET rest == Concat(Tail(frames))
         IN  [columns |-> frames[1].columns \cup rest.columns,
              rows |-> frames[1].rows \o rest.rows]

\* df.drop_duplicates(subset=["analysis_text"]): the first row of each
\* analysis_text is kept, in order.
DropDuplicates_KeepLast(rows) ==
    LET Last(i) == \A j \in (i + 1)..Len(rows) : rows[j].analysis_text # rows[i].analysis_text
        RECURSIVE Take(_)
        Take(i) == IF i > Len(rows) THEN <<>>
                   ELSE IF Last(i) THEN <<rows[i]>> \o Take(i + 1)
                   ELSE Take(i + 1)
    IN  Take(1)

DropDuplicates(rows) ==
    LET First(i) == \A j \in 1..(i - 1) : rows[j].analysis_text # rows[i].analysis_text
        idx == {i \in DOMAIN rows : First(i)}
        RECURSIVE Take(_)
        Take(i) == IF i > Len(rows) THEN <<>>
                   ELSE IF i \in idx THEN <<rows[i]>> \o Take(i + 1)
                   ELSE Take(i + 1)
    IN  Take(1)

\* The date strings the sources use and what pd.to_datetime makes of them:
\* the calendar day (numbered, 2024-01-01 being day 1) of a parsable one;
\* any other string is NaT.
Calendar ==
    [d \in {"2024-01-01", "2024-01-01 18:30", "2024-01-02", "2024-01-03",
            "20240101", "20240102"} |->
        CASE d \in {"2024-01-01", "2024-01-01 18:30", "20240101"} -> 1
          [] d \in {"2024-01-02", "20240102"} -> 2
          [] OTHER -> 3]
NaT == [valid |-> FALSE, day |-> 0]
\* 1970-01-01 in that numbering: 2024-01-01 is 19723 days after it.
EpochDay == 1 - 19723
\* The date cells of the sources that are integer literals, and the empty
\* cell.
IntegerLiterals == {"20240101", "20240102"}
EmptyCell == ""

\* pd.read_csv for the column that is given no dtype (the date column; title
\* and text are read as "string"): its dtype is inferred from the rows read
\* by this call, the whole file or one chunk.  When every cell of them is an
\* integer literal or empty the column is numeric, otherwise it holds the
\* cells as strings, an empty cell being NaN either way.
NumericBlock(rows, date_col) ==
    \A i \in DOMAIN rows : rows[i][date_col] \in IntegerLiterals \cup {EmptyCell}
ReadCsv(rows, date_col) ==
    IF date_col = NoColumn THEN rows
    ELSE [i \in DOMAIN rows |->
             [rows[i] EXCEPT ![date_col] =
                 [dtype |-> IF NumericBlock(rows, date_col) THEN "number" ELSE "object",
                  value |-> rows[i][date_col]]]]

\* pd.to_datetime(value, errors="coerce") for a cell of the frame: NaN is
\* NaT, a number is that many nanoseconds after 1970-01-01 (the literals
\* above are less than a day), a string is parsed.
ToDatetime(v) ==
    IF v.value = EmptyCell THEN NaT
    ELSE IF v.dtype = "number" THEN [valid |-> TRUE, day |-> EpochDay]
    ELSE IF v.value \in DOMAIN Calendar THEN [valid |-> TRUE, day |-> Calendar[v.value]]
    ELSE NaT

\* Python None for an Optional value: <<>> is None and <<v>> is the value v.
None == <<>>
\* `if chunksize and chunksize > 0`
Chunked(chunksize) == chunksize # None /\ chunksize[1] > 0

\* load_kaggle_dataset raising DataIngestionError, as [error, df].
IngestionError == [error |-> "DataIngestionError", df |-> [columns |-> {}, rows |-> <<>>]]

\* Lines 60-75: the chunks read and processed, then concatenated, or the
\* whole file processed at once.
ReadFrame(src, chunksize, title_col, text_col, date_col) ==
    IF Chunked(chunksize)
    THEN Concat([i \in DOMAIN ReadChunks(src.rows, chunksize[1]) |->
                    ProcessChunk(ReadCsv(ReadChunks(src.rows, chunksize[1])[i], date_col),
                                 title_col, text_col, date_col)])
    ELSE ProcessChunk(ReadCsv(src.rows, date_col), title_col, text_col, date_col)

\* Lines 82-83: the date column parsed when the frame has one.
ParseDates(columns, rows) ==
    IF "date" \in columns
    THEN [i \in DOMAIN rows |-> [rows[i] EXCEPT !.date = ToDatetime(rows[i].date)]]
    ELSE rows

\* Lines 77-87: duplicates dropped, dates parsed, the frame returned.
FinishLoad(loaded) ==
    [error |-> "",
     df |-> [columns |-> loaded.columns,
             rows |-> ParseDates(loaded.columns, DropDuplicates(loaded.rows))]]

\* Lines 53-87, once the header has been resolved to the three columns.
LoadResolved_NoTextCheck(src, chunksize, title_col, text_col, date_col) ==
    IF title_col = NoColumn THEN IngestionError
    ELSE FinishLoad(ReadFrame(src, chunksize, title_col,
                              IF text_col = NoColumn THEN title_col ELSE text_col, date_col))

LoadResolved(src, chunksize, title_col, text_col, date_col) ==
    IF title_col = NoColumn \/ text_col = NoColumn THEN IngestionError
    ELSE FinishLoad(ReadFrame(src, chunksize, title_col, text_col, date_col))

\* load_kaggle_dataset: [error |-> "" or the exception raised, df |-> frame].
LoadKaggleDataset(src, chunksize) ==
    IF ~src.exists THEN IngestionError
    ELSE LoadResolved(src, chunksize,
                      ResolveColumn(src.header, TITLE_COLUMN_CANDIDATES),
                      ResolveColumn(src.header, TEXT_COLUMN_CANDIDATES),
                      ResolveColumn(src.header, DATE_COLUMN_CANDIDATES))

----------------------------------------------------------------------------
(* pipeline/preprocessing.py                                               *)

\* Whether pattern pat (lower-case) occurs in s at position i, ignoring case.
StartsWithCI(s, i, pat) ==
    /\ i + Len(pat) - 1 <= Len(s)
    /\ \A k \in DOMAIN pat : LowerChar(s[i + k - 1]) = pat[k]

\* Length of the longest run of characters satisfying the class from i on:
\* "S" is \S, "w" is \w, "e" is the emoji class.
InClass(class, c) ==
    CASE class = "S" -> ~IsSpace(c)
      [] class = "w" -> IsWordChar(c)
      [] OTHER -> c = EmojiChar
RECURSIVE RunLen(_, _, _)
RunLen(class, s, i) ==
    IF i > Len(s) \/ ~InClass(class, s[i]) THEN 0 ELSE 1 + RunLen(class, s, i + 1)

\* Length of the match of each compiled pattern at position i (0: no match).
\*   URL_RE          https?://\S+|www\.\S+   (IGNORECASE)
\*   MENTION_RE      @\w+
\*   HASHTAG_RE      #\w+
\*   EMOJI_RE        [emoji ranges]+
\*   SPECIAL_CHAR_RE [^a-zA-Z0-9\s]
\* A literal prefix of length `prefix` followed by a run of one or more
\* characters, `run` of them found: the length matched.
PrefixedRun(prefix, run) == IF prefix > 0 /\ run > 0 THEN prefix + run ELSE 0
\* The literal part of URL_RE matched at i: https://, http:// or www.
UrlPrefix(s, i) ==
    IF StartsWithCI(s, i, <<"h","t","t","p">>)
    THEN IF StartsWithCI(s, i + 4, <<":","/","/">>) THEN 7
         ELSE IF StartsWithCI(s, i + 4, <<"s",":","/","/">>) THEN 8
         ELSE 0
    ELSE IF StartsWithCI(s, i, <<"w","w","w",".">>) THEN 4
    ELSE 0
Sigil(re) == IF re = "MENTION_RE" THEN "@" ELSE "#"
MatchLen(re, s, i) ==
    CASE re = "URL_RE" ->
            IF UrlPrefix(s, i) = 0 THEN 0
            ELSE PrefixedRun(UrlPrefix(s, i), RunLen("S", s, i + UrlPrefix(s, i)))
      [] re \in {"MENTION_RE", "HASHTAG_RE"} ->
            IF s[i] = Sigil(re) THEN PrefixedRun(1, RunLen("w", s, i + 1)) ELSE 0
      [] re = "EMOJI_RE" -> RunLen("e", s, i)
      [] OTHER -> IF ~IsAlnum(s[i]) /\ ~IsSpace(s[i]) THEN 1 ELSE 0

\* series.str.replace(re, " ", regex=True): every match, left to right and
\* non-overlapping, becomes one space.
RECURSIVE ReplaceFrom(_, _, _)
RECURSIVE ReplaceAt(_, _, _, _)
\* n is the length of the match at i.
ReplaceAt(re, s, i, n) ==
    IF n > 0 THEN <<" ">> \o ReplaceFrom(re, s, i + n)
    ELSE <<s[i]>> \o ReplaceFrom(re, s, i + 1)
ReplaceFrom(re, s, i) ==
    IF i > Len(s) THEN <<>> ELSE ReplaceAt(re, s, i, MatchLen(re, s, i))
ReplaceWithSpace(re, s) == ReplaceFrom(re, s, 1)

\* The patterns clean_text_series replaces by a space, in its order.
CleanPatterns == <<"URL_RE", "MENTION_RE", "HASHTAG_RE", "EMOJI_RE", "SPECIAL_CHAR_RE">>
RECURSIVE ReplaceEach(_, _)
ReplaceEach(patterns, s) ==
    IF patterns = <<>> THEN s
    ELSE ReplaceEach(Tail(patterns), ReplaceWithSpace(Head(patterns), s))

\* clean_text_series on one value.
CleanText(s) == Strip(CollapseWhitespace(Lower(ReplaceEach(CleanPatterns, FillNa(s)))))

\* str.split(): the maximal runs of non-whitespace characters.
RECURSIVE SplitFrom(_, _)
SplitFrom(s, i) ==
    IF i > Len(s) THEN <<>>
    ELSE IF IsSpace(s[i]) THEN SplitFrom(s, i + 1)
    ELSE LET n == RunLen("S", s, i)
         IN  <<SubSeq(s, i, i + n - 1)>> \o SplitFrom(s, i + n)
Split(s) == SplitFrom(s, 1)

\* output[name] = values: the frame with column `name` set row by row.
WithColumn(frame, name, values) ==
    [columns |-> frame.columns \cup {name},
     rows |-> [i \in DOMAIN frame.rows |-> (name :> values[i]) @@ frame.rows[i]]]

\* Lines 41-43: the tokens column when tokenize is set.
WithTokens(output, tokenize) ==
    IF tokenize
    THEN WithColumn(output, "tokens",
                    [i \in DOMAIN output.rows |-> Split(output.rows[i].cleaned_text)])
    ELSE output

\* preprocess_dataframe
PreprocessDataframe(frame, tokenize) ==
    WithTokens(WithColumn(frame, "cleaned_text",
                          [i \in DOMAIN frame.rows |-> CleanText(frame.rows[i].analysis_text)]),
               tokenize)

----------------------------------------------------------------------------
(* pipeline/intelligence.py: lexicon scoring                               *)

\* The weighted-term tables, in dict order; weights in tenths.
SUSPICIOUS_KEYWORDS ==
    << [term |-> <<"b","r","e","a","k","i","n","g">>, weight |-> 14],
       [term |-> <<"s","h","o","c","k","i","n","g">>, weight |-> 18],
       [term |-> <<"u","r","g","e","n","t">>, weight |-> 16],
       [term |-> <<"s","e","c","r","e","t">>, weight |-> 13],
       [term |-> <<"v","i","r","a","l">>, weight |-> 12],
       [term |-> <<"e","x","p","o","s","e","d">>, weight |-> 15],
       [term |-> <<"p","a","n","i","c">>, weight |-> 19],
       [term |-> <<"a","l","e","r","t">>, weight |-> 14] >>

EMOTIONAL_LEXICON ==
    << [term |-> <<"f","e","a","r">>, weight |-> 16],
       [term |-> <<"p","a","n","i","c">>, weight |-> 20],
       [term |-> <<"c","h","a","o","s">>, weight |-> 17],
       [term |-> <<"d","i","s","a","s","t","e","r">>, weight |-> 16],
       [term |-> <<"t","h","r","e","a","t">>, weight |-> 15],
       [term |-> <<"u","r","g","e","n","t">>, weight |-> 14],
       [term |-> <<"a","l","a","r","m","i","n","g">>, weight |-> 17],
       [term |-> <<"c","r","i","s","i","s">>, weight |-> 18],
       [term |-> <<"c","a","t","a","s","t","r","o","p","h","i","c">>, weight |-> 20],
       [term |-> <<"s","h","o","c","k","i","n","g">>, weight |-> 15] >>

\* \b at position i of s (between s[i-1] and s[i]): exactly one side is \w.
WordBoundary(s, i) ==
    LET before == i > 1 /\ IsWordChar(s[i - 1])
        after == i <= Len(s) /\ IsWordChar(s[i])
    IN  before # after

\* Whether rf"\b{re.escape(term)}\b" matches s at position i (case-sensitive).
TermAt_Substring(s, term, i) ==
    /\ i + Len(term) - 1 <= Len(s)
    /\ SubSeq(s, i, i + Len(term) - 1) = term

TermAt(s, term, i) ==
    /\ i + Len(term) - 1 <= Len(s)
    /\ SubSeq(s, i, i + Len(term) - 1) = term
    /\ WordBoundary(s, i)
    /\ WordBoundary(s, i + Len(term))

\* _term_count on one value: series.str.count(pattern), the number of
\* non-overlapping matches found scanning left to right.
RECURSIVE CountFrom(_, _, _)
CountFrom(s, term, i) ==
    IF i > Len(s) THEN 0
    ELSE IF TermAt(s, term, i) THEN 1 + CountFrom(s, term, i + Len(term))
    ELSE CountFrom(s, term, i + 1)
TermCount(s, term) == CountFrom(s, term, 1)

RECURSIVE SumSeq(_)
SumSeq(s) == IF Len(s) = 0 THEN 0 ELSE Head(s) + SumSeq(Tail(s))

\* output[text_column].fillna("")
TextSeries(frame) == [i \in DOMAIN frame.rows |-> FillNa(frame.rows[i].cleaned_text)]

\* Lines 84-91 for one row: the sum over the terms of count * weight.
RowScore(text, lexicon) ==
    SumSeq([k \in DOMAIN lexicon |-> TermCount(text, lexicon[k].term) * lexicon[k].weight])

\* Line 86: int(counts.sum()) for one term.
TermFrequency(text_series, term) ==
    SumSeq([i \in DOMAIN text_series |-> TermCount(text_series[i], term)])

\* apply_lexicon_score: [df, keyword_frequency]; keyword_frequency is the
\* dict as the sequence of [term, frequency] in insertion order (the tables
\* used have no repeated term).
ApplyLexiconScore(frame, lexicon, output_column) ==
    [df |-> WithColumn(frame, output_column,
                       [i \in DOMAIN frame.rows |-> RowScore(TextSeries(frame)[i], lexicon)]),
     keyword_frequency |->
         [k \in DOMAIN lexicon |->
             [term |-> lexicon[k].term,
              frequency |-> TermFrequency(TextSeries(frame), lexicon[k].term)]]]

\* re.search(rf"\b{re.escape(term)}\b", text) is not None
TermPresent(s, term) == \E i \in DOMAIN s : TermAt(s, term, i)

\* extract_present_keywords: the terms of the lexicon found, in its order.
RECURSIVE ExtractPresentKeywords(_, _)
ExtractPresentKeywords(text, lexicon) ==
    IF lexicon = <<>> THEN <<>>
    ELSE (IF TermPresent(text, Head(lexicon).term) THEN <<Head(lexicon).term>> ELSE <<>>)
         \o ExtractPresentKeywords(text, Tail(lexicon))

\* add_suspicious_keyword_highlights: `lexicon or SUSPICIOUS_KEYWORDS`.
AddSuspiciousKeywordHighlights(frame, lexicon) ==
    WithColumn(frame, "suspicious_keywords",
               [i \in DOMAIN frame.rows |->
                   ExtractPresentKeywords(TextSeries(frame)[i],
                                          IF lexicon = <<>> THEN SUSPICIOUS_KEYWORDS
                                          ELSE lexicon)])

----------------------------------------------------------------------------
(* pipeline/intelligence.py: narrative repetition                          *)

\* Some of scikit-learn's ENGLISH_STOP_WORDS (stop_words="english").
StopWords ==
    { <<"i","t">>, <<"i","s">>, <<"w","h","a","t">>, <<"t","h","e">>,
      <<"o","f">>, <<"a","n","d">>, <<"t","o">>, <<"i","n">> }

\* TfidfVectorizer's tokenizer: lower-case, then the matches of the
\* token_pattern (?u)\b\w\w+\b, the runs of two or more word characters.
RECURSIVE TokensFrom(_, _)
TokensFrom(s, i) ==
    IF i > Len(s) THEN <<>>
    ELSE LET n == RunLen("w", s, i)
         IN  IF n = 0 THEN TokensFrom(s, i + 1)
             ELSE IF n = 1 THEN TokensFrom(s, i + 1)
             ELSE <<SubSeq(s, i, i + n - 1)>> \o TokensFrom(s, i + n)
Tokenize(s) == TokensFrom(Lower(s), 1)

\* The analyzer: stop words removed, then the unigrams and the bigrams
\* (ngram_range=(1, 2)); an n-gram is the sequence of its tokens.
Ngrams(s) ==
    LET NotStop(t) == t \notin StopWords
        toks == SelectSeq(Tokenize(s), NotStop)
    IN  [i \in DOMAIN toks |-> <<toks[i]>>]
        \o [i \in 1..(Len(toks) - 1) |-> <<toks[i], toks[i + 1]>>]

\* Term frequency of feature f in the document with n-grams g.
Tf(g, f) == Cardinality({i \in DOMAIN g : g[i] = f})

\* The vocabulary fitted on the corpus (max_features=25000 keeps all of it
\* for the corpora here).
Vocabulary(texts) == UNION {Range(Ngrams(texts[i])) : i \in DOMAIN texts}

\* Sum of the values of a function with a finite domain.
RECURSIVE SumFn(_)
SumFn(f) ==
    IF DOMAIN f = {} THEN 0
    ELSE LET x == CHOOSE y \in DOMAIN f : TRUE
         IN  f[x] + SumFn([z \in DOMAIN f \ {x} |-> f[z]])

\* floor(sqrt(n)) for 0 <= n < 2^31, by bisection on lo <= root < hi.
RECURSIVE ISqrtIn(_, _, _)
ISqrtIn(n, lo, hi) ==
    IF hi - lo <= 1 THEN lo
    ELSE LET mid == (lo + hi) \div 2
         IN  IF mid * mid <= n THEN ISqrtIn(n, mid, hi) ELSE ISqrtIn(n, lo, mid)
ISqrt(n) == ISqrtIn(n, 0, 46341)

\* Cosine similarity of the tf-idf rows of two documents, given their
\* n-grams, in thousandths, rounded down.  The rows are l2-normalised
\* term-frequency vectors; the idf factor, a positive weight per feature, is
\* taken as 1.  A document without features has the zero vector, whose
\* similarity to anything is 0.
CosineSimilarity(ga, gb) ==
    LET feats == Range(ga) \cup Range(gb)
        dot == SumFn([f \in feats |-> Tf(ga, f) * Tf(gb, f)])
        na == SumFn([f \in feats |-> Tf(ga, f) * Tf(ga, f)])
        nb == SumFn([f \in feats |-> Tf(gb, f) * Tf(gb, f)])
    IN  IF na = 0 \/ nb = 0 THEN 0
        ELSE ISqrt((1000000 * dot * dot) \div (na * nb))

\* similarities = 1.0 - distances, as the matrix [query row][fitted row].
\* The distance of a row to itself is 0, except that for a zero vector it is
\* 0 or 1 depending on whether cosine_distances zeroes the diagonal:
\* zero_self is the similarity (0 or 1000) the build then gives.
RECURSIVE SimilarityRow(_, _, _, _)
SimilarityRow(grams, i, j, zero_self) ==
    IF j > Len(grams) THEN <<>>
    ELSE << IF i = j
            THEN (IF grams[i] = <<>> THEN zero_self ELSE 1000)
            ELSE CosineSimilarity(grams[i], grams[j]) >>
         \o SimilarityRow(grams, i, j + 1, zero_self)
RECURSIVE SimilarityRows(_, _, _)
SimilarityRows(grams, i, zero_self) ==
    IF i > Len(grams) THEN <<>>
    ELSE <<SimilarityRow(grams, i, 1, zero_self)>> \o SimilarityRows(grams, i + 1, zero_self)
RECURSIVE NgramsOfAll(_)
NgramsOfAll(texts) ==
    IF Len(texts) = 0 THEN <<>> ELSE <<Ngrams(Head(texts))>> \o NgramsOfAll(Tail(texts))
Similarities(texts, zero_self) == SimilarityRows(NgramsOfAll(texts), 1, zero_self)

\* neighbor_count = max(2, min(n_neighbors, matrix.shape[0]))
NeighborCount_NoFloor(n_neighbors, n) == IF n_neighbors < n THEN n_neighbors ELSE n

NeighborCount(n_neighbors, n) ==
    LET m == IF n_neighbors < n THEN n_neighbors ELSE n
    IN  IF m < 2 THEN 2 ELSE m

\* nearest.kneighbors(matrix) for one row: a set of k rows none of which is
\* farther than a row left out; ties are broken arbitrarily.  The result is
\* the set of neighbour sets kneighbors may return for the row.
Nearest(row_sims, k) ==
    {N \in SUBSET (DOMAIN row_sims) :
        /\ Cardinality(N) = k
        /\ \A a \in N : \A b \in (DOMAIN row_sims) \ N : row_sims[a] >= row_sims[b]}

MaxOf(S) == CHOOSE x \in S : \A y \in S : y <= x

\* Lines 144-145 for the row row_index: mask = row_neighbors != row_index,
\* the best similarity among the neighbours left, 0.0 when none is left.
\* row_sims holds the similarity of the row to every fitted row.
BestSimilarity_NoMask(row_sims, row_neighbors, row_index) ==
    MaxOf({row_sims[j] : j \in row_neighbors})

BestSimilarity(row_sims, row_neighbors, row_index) ==
    IF {j \in row_neighbors : j # row_index} # {}
    THEN MaxOf({row_sims[j] : j \in {n \in row_neighbors : n # row_index}})
    ELSE 0

\* Lines 135-146: the arrays max_similarities the loop can produce, one per
\* way kneighbors may choose the neighbours of every row.
RECURSIVE MaxSimilaritiesFrom(_, _, _)
MaxSimilaritiesFrom(similarities, k, row_index) ==
    IF row_index > Len(similarities) THEN {<<>>}
    ELSE {<<best>> \o rest :
            best \in {BestSimilarity(similarities[row_index], N, row_index) :
                        N \in Nearest(similarities[row_index], k)},
            rest \in MaxSimilaritiesFrom(similarities, k, row_index + 1)}
MaxSimilarities(similarities, k) == MaxSimilaritiesFrom(similarities, k, 1)

\* fit_transform raises ValueError("empty vocabulary; ...") when no document
\* of the corpus has a feature.
EmptyVocabulary(texts) == Vocabulary(texts) = {}

\* Lines 124-126: the frame as returned for a corpus of fewer than 2 rows.
NarrativeDefaults_Flagged(frame) ==
    WithColumn(WithColumn(frame, "max_narrative_similarity", [i \in DOMAIN frame.rows |-> 0]),
               "narrative_repetition_flag", [i \in DOMAIN frame.rows |-> TRUE])

NarrativeDefaults(frame) ==
    WithColumn(WithColumn(frame, "max_narrative_similarity", [i \in DOMAIN frame.rows |-> 0]),
               "narrative_repetition_flag", [i \in DOMAIN frame.rows |-> FALSE])

\* Lines 148-149 for the array max_similarities.
NarrativeScored(frame, similarity_threshold, max_similarities) ==
    WithColumn(WithColumn(frame, "max_narrative_similarity", max_similarities),
               "narrative_repetition_flag",
               [i \in DOMAIN max_similarities |-> max_similarities[i] >= similarity_threshold])

\* Lines 128-150 once the vocabulary is known not to be empty.
Vectorized(frame, similarity_threshold, neighbor_count, zero_self) ==
    {[error |-> "", vectorized |-> TRUE, neighbor_count |-> neighbor_count,
      df |-> NarrativeScored(frame, similarity_threshold, ms)] :
        ms \in MaxSimilarities(Similarities(TextSeries(frame), zero_self), neighbor_count)}

\* apply_narrative_repetition: the set of outcomes [error, vectorized, df] it
\* can have (one per way kneighbors may break ties and treat zero vectors);
\* vectorized tells whether the vectorizer was run and neighbor_count how
\* many neighbours NearestNeighbors was built to search per row (0 when
\* it was not built).
ApplyNarrativeRepetition(frame, similarity_threshold, n_neighbors) ==
    IF Len(frame.rows) < 2
    THEN {[error |-> "", vectorized |-> FALSE, neighbor_count |-> 0,
           df |-> NarrativeDefaults(frame)]}
    ELSE IF EmptyVocabulary(TextSeries(frame))
    THEN {[error |-> "ValueError", vectorized |-> TRUE, neighbor_count |-> 0, df |-> frame]}
    ELSE UNION {Vectorized(frame, similarity_threshold,
                           NeighborCount(n_neighbors, Len(frame.rows)), z) : z \in {0, 1000}}

----------------------------------------------------------------------------
(* pipeline/intelligence.py: sentiment                                     *)

\* apply_sentiment_analysis, given the compound score (in 1e-4, within
\* [-1, 1]) the VADER analyzer returns for each row: label and intensity.
ApplySentimentAnalysis(frame, compounds) ==
    [columns |-> frame.columns \cup {"sentiment_compound", "sentiment_label", "sentiment_intensity"},
     rows |-> [i \in DOMAIN frame.rows |->
                  [sentiment_compound |-> compounds[i],
                   sentiment_label |-> IF compounds[i] >= 2500 THEN "Positive"
                                       ELSE IF compounds[i] <= -2500 THEN "Negative"
                                       ELSE "Neutral",
                   sentiment_intensity |-> IF compounds[i] < 0 THEN -compounds[i]
                                           ELSE compounds[i]]
                  @@ frame.rows[i]]]

----------------------------------------------------------------------------
(* pipeline/risk.py                                                        *)

\* _normalize_series_to_100, for scores in tenths: the components in 1e-4.
NormalizeSeriesTo100_Unscaled(series) == [i \in DOMAIN series |-> series[i] * 100000]

NormalizeSeriesTo100(series) ==
    LET max_value == IF Len(series) > 0 THEN MaxOf(Range(series)) ELSE 0
    IN  IF max_value <= 0 THEN [i \in DOMAIN series |-> 0]
        ELSE [i \in DOMAIN series |-> (series[i] * 1000000) \div max_value]

\* round(x, d) of numpy for x = num / den: the nearest multiple of one unit,
\* a tie going to the even one.
RoundHalfEven(num, den) ==
    LET q == num \div den
        r == num % den
    IN  IF 2 * r > den THEN q + 1
        ELSE IF 2 * r < den THEN q
        ELSE IF q % 2 = 0 THEN q ELSE q + 1

\* pd.cut(x, bins, labels): the label of the right-closed bin
\* (bins[i], bins[i+1]] holding x, missing when no bin holds it.
Cut_LeftClosed(x, bins, labels) ==
    LET hit == {i \in DOMAIN labels : bins[i] <= x /\ x < bins[i + 1]}
    IN  IF hit = {} THEN "<NA>" ELSE labels[CHOOSE i \in hit : TRUE]

Cut(x, bins, labels) ==
    LET hit == {i \in DOMAIN labels : bins[i] < x /\ x <= bins[i + 1]}
    IN  IF hit = {} THEN "<NA>" ELSE labels[CHOOSE i \in hit : TRUE]

\* bins=[-1, 35, 70, 100] in hundredths, and their labels.
RiskBins == <<-100, 3500, 7000, 10000>>
RiskLabels == <<"Low Risk", "Medium Risk", "High Risk">>

\* _build_explanation: the factors named, in order, each with its component
\* formatted to one decimal (in tenths).
BuildExplanation(row) ==
    LET Factor(name, value) ==
            IF value >= 350000 THEN <<[factor |-> name, value |-> RoundHalfEven(value, 1000)]>>
            ELSE <<>>
        factors == Factor("high negative sentiment impact", row.sentiment_component)
                   \o Factor("elevated suspicious keyword signal", row.keyword_component)
                   \o Factor("strong emotional intensity markers", row.emotion_component)
                   \o Factor("narrative repetition similarity", row.narrative_component)
    IN  IF factors = <<>>
        THEN <<[factor |-> "no dominant high-risk indicator detected", value |-> 0]>>
        ELSE factors

\* np.maximum(-compound, 0.0) * 100.0, in 1e-4 of a point.
SentimentComponent(compound) == (IF -compound > 0 THEN -compound ELSE 0) * 100

\* similarity.clip(lower=0.0, upper=1.0) * 100.0, in 1e-4 of a point.
NarrativeComponent(similarity) ==
    (IF similarity < 0 THEN 0 ELSE IF similarity > 1000 THEN 1000 ELSE similarity) * 1000

\* apply_explainable_risk_scoring
ApplyExplainableRiskScoring(frame) ==
    LET rows == frame.rows
        kw == NormalizeSeriesTo100([i \in DOMAIN rows |-> rows[i].keyword_suspicion_score])
        emo == NormalizeSeriesTo100([i \in DOMAIN rows |-> rows[i].emotional_intensity_score])
        Scored(i) ==
            LET sc == SentimentComponent(rows[i].sentiment_compound)
                nc == NarrativeComponent(rows[i].max_narrative_similarity)
                score == RoundHalfEven(sc + kw[i] + emo[i] + nc, 400)
                comps == [sentiment_component |-> sc, keyword_component |-> kw[i],
                          emotion_component |-> emo[i], narrative_component |-> nc]
            IN  comps @@ [risk_score |-> score,
                          risk_label |-> Cut(score, RiskBins, RiskLabels),
                          explanation |-> BuildExplanation(comps)]
    IN  [columns |-> frame.columns \cup
                     {"sentiment_component", "keyword_component", "emotion_component",
                      "narrative_component", "risk_score", "risk_label", "explanation"},
         rows |-> [i \in DOMAIN rows |-> Scored(i) @@ rows[i]]]

----------------------------------------------------------------------------
(* pipeline/intelligence.py: temporal trends                               *)

RECURSIVE Gcd(_, _)
Gcd(a, b) == IF b = 0 THEN a ELSE Gcd(b, a % b)
RECURSIVE GcdAll(_)
GcdAll(xs) == IF Len(xs) = 0 THEN 0 ELSE Gcd(Head(xs), GcdAll(Tail(xs)))
RECURSIVE Product(_)
Product(xs) == IF Len(xs) = 0 THEN 1 ELSE Head(xs) * Product(Tail(xs))

\* For per-bucket values xs (non-negative, on one scale): whether bucket d has
\* z = (x - mean) / std >= 1.5 with the population std (ddof=0); with std = 0
\* every z is 0.0.  z does not change when all values are scaled alike, so
\* they are first divided by their gcd; then, with D = N*x - sum and
\* V = N*sum(x^2) - sum^2 (N^2 times the variance), z >= 1.5 iff
\* D >= 0 and 4*D^2 >= 9*V.
ZSpike_Strict(xs, d) ==
    LET g == GcdAll(xs)
        ys == IF g = 0 THEN xs ELSE [i \in DOMAIN xs |-> xs[i] \div g]
        N == Len(ys)
        S == SumSeq(ys)
        V == N * SumSeq([i \in DOMAIN ys |-> ys[i] * ys[i]]) - S * S
        D == N * ys[d] - S
    IN  IF V > 0 THEN D >= 0 /\ 4 * D * D > 9 * V ELSE FALSE

ZSpike_SevenFifths(xs, d) ==
    LET g == GcdAll(xs)
        ys == IF g = 0 THEN xs ELSE [i \in DOMAIN xs |-> xs[i] \div g]
        N == Len(ys)
        S == SumSeq(ys)
        V == N * SumSeq([i \in DOMAIN ys |-> ys[i] * ys[i]]) - S * S
        D == N * ys[d] - S
    IN  IF V > 0 THEN D >= 0 /\ 25 * D * D >= 49 * V ELSE FALSE

ZSpike(xs, d) ==
    LET g == GcdAll(xs)
        ys == IF g = 0 THEN xs ELSE [i \in DOMAIN xs |-> xs[i] \div g]
        N == Len(ys)
        S == SumSeq(ys)
        Q == SumSeq([i \in DOMAIN ys |-> ys[i] * ys[i]])
        V == N * Q - S * S
        D == N * ys[d] - S
    IN  IF V > 0 THEN D >= 0 /\ 4 * D * D >= 9 * V ELSE FALSE

\* Lines 158-159: to_datetime(errors="coerce") then dropna(subset=["date"]),
\* the rows whose date parsed, in order.
DropNaDate_KeepAll(rows) == rows

DropNaDate(rows) == SelectSeq(rows, LAMBDA r : r.date.valid)

\* detect_temporal_trends: the list of day buckets.
DetectTemporalTrends(frame) ==
    IF "date" \notin frame.columns THEN <<>>
    ELSE
    LET temporal == DropNaDate(frame.rows)
        days == {temporal[i].date.day : i \in DOMAIN temporal}
        RECURSIVE Sorted(_)
        Sorted(D) == IF D = {} THEN <<>>
                     ELSE LET m == CHOOSE x \in D : \A y \in D : x <= y
                          IN  <<m>> \o Sorted(D \ {m})
        order == Sorted(days)
        Of(day) == {i \in DOMAIN temporal : temporal[i].date.day = day}
        count == [k \in DOMAIN order |-> Cardinality(Of(order[k]))]
        total == [k \in DOMAIN order |->
                     SumFn([i \in Of(order[k]) |-> temporal[i].sentiment_compound])]
        repeated == [k \in DOMAIN order |->
                        Cardinality({i \in Of(order[k]) : temporal[i].narrative_repetition_flag})]
        \* |avg_sentiment| of every day on the common denominator prod(count)
        all == Product(count)
        sentiment_abs == [k \in DOMAIN order |->
                            (IF total[k] < 0 THEN -total[k] ELSE total[k]) * (all \div count[k])]
    IN  IF Len(temporal) = 0 THEN <<>>
        ELSE [k \in DOMAIN order |->
                 [date |-> order[k],
                  article_count |-> count[k],
                  avg_sentiment |-> RoundHalfEven(total[k], count[k]),
                  repeated_narratives |-> repeated[k],
                  sentiment_spike |-> ZSpike(sentiment_abs, k),
                  narrative_spike |-> ZSpike(repeated, k)]]

----------------------------------------------------------------------------
(* services/analysis_service.py                                            *)

\* AnalysisService.analyze, lines 42-52: the outcomes [error, data,
\* keyword_frequency, temporal_trends] of the pipeline for a request, one per
\* value the sentiment analyzer and the neighbour search can return.
CompoundSamples == {-5000, 2500}

PipelineError(e) ==
    [error |-> e, data |-> <<>>, keyword_frequency |-> <<>>, temporal_trends |-> <<>>]

\* Lines 50-52: risk scoring, then the temporal trends of the scored frame.
AnalyzeRisk(keyword_frequency, scored) ==
    [error |-> "", data |-> scored, keyword_frequency |-> keyword_frequency,
     temporal_trends |-> DetectTemporalTrends(scored)]

AnalyzeNarrative(keyword_frequency, narrative) ==
    IF narrative.error # "" THEN PipelineError(narrative.error)
    ELSE AnalyzeRisk(keyword_frequency, ApplyExplainableRiskScoring(narrative.df))

\* Lines 47-49, given what the first apply_lexicon_score returned.
AnalyzeLexicon(scored, similarity_threshold) ==
    {AnalyzeNarrative(scored.keyword_frequency, narrative) :
        narrative \in ApplyNarrativeRepetition(
            AddSuspiciousKeywordHighlights(
                ApplyLexiconScore(scored.df, EMOTIONAL_LEXICON,
                                  "emotional_intensity_score").df,
                SUSPICIOUS_KEYWORDS),
            similarity_threshold, 6)}

\* Lines 45-46 on the preprocessed frame.
AnalyzeSentiment(cleaned, similarity_threshold) ==
    UNION {AnalyzeLexicon(ApplyLexiconScore(ApplySentimentAnalysis(cleaned, compounds),
                                            SUSPICIOUS_KEYWORDS, "keyword_suspicion_score"),
                          similarity_threshold) :
             compounds \in [DOMAIN cleaned.rows -> CompoundSamples]}

\* Lines 42-43.
AnalyzeLoaded(loaded, request) ==
    IF loaded.error # "" THEN {PipelineError(loaded.error)}
    ELSE AnalyzeSentiment(PreprocessDataframe(loaded.df, request.tokenize),
                          request.similarity_threshold)

Pipeline(src, request) == AnalyzeLoaded(LoadKaggleDataset(src, request.chunksize), request)

\* _require_result: whether it raises RuntimeError("No analysis found...").
RequireResultRaises(cached) == cached = None

\* df.head(limit)
Head_(rows, limit) == IF Len(rows) <= limit THEN rows ELSE SubSeq(rows, 1, limit)

ProcessedColumns ==
    {"title", "text", "analysis_text", "cleaned_text", "sentiment_compound",
     "sentiment_label", "keyword_suspicion_score", "emotional_intensity_score",
     "max_narrative_similarity", "narrative_repetition_flag", "risk_score",
     "risk_label", "suspicious_keywords", "explanation"}

\* get_processed_records on an AnalysisResult.
GetProcessedRecords(res, limit) ==
    LET columns == ProcessedColumns \cup (IF "date" \in res.data.columns THEN {"date"} ELSE {})
        output == [i \in DOMAIN res.data.rows |-> [c \in columns |-> res.data.rows[i][c]]]
    IN  IF limit # None /\ limit[1] > 0 THEN Head_(output, limit[1]) ELSE output

\* Rows per value of a column: groupby(column).size().
GroupSizes(rows, column) ==
    LET values == {rows[i][column] : i \in DOMAIN rows}
    IN  [v \in values |-> Cardinality({i \in DOMAIN rows : rows[i][column] = v})]

\* The rows sorted by risk_score, highest first (ties in source order).
RECURSIVE SortByRisk(_)
SortByRisk(rows) ==
    IF Len(rows) = 0 THEN <<>>
    ELSE LET top == CHOOSE i \in DOMAIN rows :
                        /\ \A j \in DOMAIN rows : rows[j].risk_score <= rows[i].risk_score
                        /\ \A j \in 1..(i - 1) : rows[j].risk_score < rows[i].risk_score
             Others(k) == IF k < top THEN rows[k] ELSE rows[k + 1]
         IN  <<rows[top]>> \o SortByRisk([k \in 1..(Len(rows) - 1) |-> Others(k)])

\* The accessors of the last result, each on an AnalysisResult.
Accessors == {"get_risk_summary", "get_status_summary", "get_sentiment_summary",
              "get_high_risk_articles", "get_keyword_trends", "get_temporal_trends",
              "get_processed_records"}

StatusOf(label) ==
    CASE label = "High Risk" -> "Fake"
      [] label = "Medium Risk" -> "Suspicious"
      [] label = "Low Risk" -> "Real"
      [] OTHER -> "<NA>"

AccessorView(name, res) ==
    CASE name = "get_risk_summary" -> GroupSizes(res.data.rows, "risk_label")
      [] name = "get_status_summary" ->
            LET sizes == GroupSizes(res.data.rows, "risk_label")
                names == {StatusOf(l) : l \in DOMAIN sizes}
            IN  [s \in names |-> SumFn([l \in {x \in DOMAIN sizes : StatusOf(x) = s} |-> sizes[l]])]
      [] name = "get_sentiment_summary" -> GroupSizes(res.data.rows, "sentiment_label")
      [] name = "get_high_risk_articles" ->
            LET High(r) == r.risk_label = "High Risk"
                rows == Head_(SortByRisk(SelectSeq(res.data.rows, High)), 20)
            IN  [i \in DOMAIN rows |->
                    [c \in {"title", "text", "sentiment_label", "risk_label", "risk_score",
                            "suspicious_keywords", "explanation"} |-> rows[i][c]]]
      [] name = "get_keyword_trends" ->
            \* sorted by frequency, highest first; a stable sort
            LET kf == res.keyword_frequency
                Rank(k) == Cardinality({j \in DOMAIN kf :
                                \/ kf[j].frequency > kf[k].frequency
                                \/ kf[j].frequency = kf[k].frequency /\ j < k}) + 1
            IN  [p \in DOMAIN kf |->
                    LET k == CHOOSE j \in DOMAIN kf : Rank(j) = p
                    IN  [keyword |-> kf[k].term, frequency |-> kf[k].frequency]]
      [] name = "get_temporal_trends" -> res.temporal_trends
      [] OTHER -> GetProcessedRecords(res, None)

----------------------------------------------------------------------------
(* Texts and CSV sources the requests and calls draw on                    *)

TxtBreaking ==
    <<"B","R","E","A","K","I","N","G",":"," ","s","h","o","c","k","i","n","g"," ","l","e","a","k">>
TxtBreakingAgain ==
    <<"b","r","e","a","k","i","n","g"," ","s","h","o","c","k","i","n","g"," ","l","e","a","k","!">>
TxtPanic ==
    <<"P","a","n","i","c","!"," ","p","a","n","i","c","s"," ","l","e","a","k">>
TxtStop == <<"I","t"," ","i","s"," ","w","h","a","t"," ","i","t"," ","i","s">>
TxtStopAgain == <<"i","t"," ","i","s"," ","w","h","a","t"," ","i","t"," ","i","s",".">>
TxtHashtag == <<"#","p","a","n","i","c">>
TxtMarks == <<"!","!">>

\* The CSV files by path: whether the file exists, its header and its rows.
Sources ==
    ("missing.csv" :> [exists |-> FALSE, header |-> <<>>, rows |-> <<>>])
    @@ ("notext.csv" :>
          [exists |-> TRUE, header |-> <<"id", "Title", "body">>,
           rows |-> <<[id |-> <<"1">>, Title |-> TxtPanic, body |-> TxtStop]>>])
    @@ ("notitle.csv" :>
          [exists |-> TRUE, header |-> <<"label", "Text">>,
           rows |-> <<[label |-> <<"1">>, Text |-> TxtPanic]>>])
    @@ ("one.csv" :>
          [exists |-> TRUE, header |-> <<"Headline", "content", "Date">>,
           rows |-> <<[Headline |-> TxtPanic, content |-> NA, Date |-> "2024-01-01"]>>])
    @@ ("two.csv" :>
          [exists |-> TRUE, header |-> <<"title", "text">>,
           rows |-> <<[title |-> TxtBreaking, text |-> <<>>],
                      [title |-> TxtBreakingAgain, text |-> NA]>>])
    @@ ("stop.csv" :>
          [exists |-> TRUE, header |-> <<"title", "text">>,
           rows |-> <<[title |-> TxtStop, text |-> NA],
                      [title |-> TxtStopAgain, text |-> NA]>>])

----------------------------------------------------------------------------
(* main.py and services/analysis_service.py: the request threads           *)

Threads == {"t1", "t2"}
MaxRequests == 3

\* The bodies of POST /analyze (AnalyzeRequest).
AnalyzeRequests ==
    {[kind |-> "analyze", csv_path |-> c, tokenize |-> FALSE, similarity_threshold |-> 820,
      chunksize |-> <<50000>>, record_limit |-> None] : c \in DOMAIN Sources \ {"two.csv"}}
    \cup {[kind |-> "analyze", csv_path |-> "two.csv", tokenize |-> TRUE,
           similarity_threshold |-> 1000, chunksize |-> None, record_limit |-> <<1>>]}

\* What analyze lines 42-52 can come to for each of these requests.
PipelineOutcomes == {<<r, Pipeline(Sources[r.csv_path], r)>> : r \in AnalyzeRequests}
PipelineOf(request) == (CHOOSE p \in PipelineOutcomes : p[1] = request)[2]

NoRequest == [seq |-> 0, kind |-> "none"]
NoLocals == [run |-> <<>>, made |-> None, result |-> None]
NoResponse == [thread |-> "", seq |-> 0, kind |-> "none", status |-> 0, detail |-> "",
               body |-> <<>>, made |-> None, returned |-> None, from |-> None]

\* The response of thread t to its request: status, detail or body, and as
\* history the result objects it was built from.
Response(t, fields) == fields @@ [thread |-> t, seq |-> req[t].seq, kind |-> req[t].kind] @@ NoResponse

\* line 54: the value of self._result once analyze has built result object id.
StoreResult_KeepFirst(cached, id) == IF cached = None THEN <<id>> ELSE cached

StoreResult(cached, id) == <<id>>

\* The AnalysisResult objects still referenced once thread t holds `mine` and
\* the service `cached`: the others are garbage.
Live(objects, cached, t, mine) ==
    LET refs == Range(cached) \cup Range(mine)
                \cup UNION {Range(local[u].result) : u \in Threads \ {t}}
    IN  [id \in DOMAIN objects \cap refs |-> objects[id]]

\* POST /analyze is accepted by a free thread: analyze_dataset is entered.
AnalyzeCall(t, r) ==
    /\ pc[t] = "idle"
    /\ served < MaxRequests
    /\ served' = served + 1
    /\ req' = [req EXCEPT ![t] = [seq |-> served + 1, body |-> r, kind |-> r.kind]]
    /\ local' = [local EXCEPT ![t] = NoLocals]
    /\ heap' = Live(heap, result, t, None)
    /\ pc' = [pc EXCEPT ![t] = "pipeline"]
    /\ UNCHANGED <<result, allocated, resp, lastOk, fnVars>>

\* analyze lines 42-52: the pipeline either raises, which main.py lines 304-305
\* turn into HTTP 400 with the exception as detail, or yields the frame, the
\* keyword table and the trends.
AnalyzePipeline(t) ==
    /\ pc[t] = "pipeline"
    /\ \E out \in PipelineOf(req[t].body) :
          IF out.error # ""
          THEN /\ resp' = Response(t, [status |-> 400, detail |-> out.error])
               /\ req' = [req EXCEPT ![t] = NoRequest]
               /\ pc' = [pc EXCEPT ![t] = "idle"]
               /\ UNCHANGED local
          ELSE /\ local' = [local EXCEPT ![t].run = out]
               /\ pc' = [pc EXCEPT ![t] = "store"]
               /\ UNCHANGED <<resp, req>>
    /\ UNCHANGED <<result, heap, allocated, served, lastOk, fnVars>>

\* analyze line 54: self._result = AnalysisResult(...)
AnalyzeStore(t) ==
    LET id == allocated + 1
        object == [data |-> local[t].run.data,
                   keyword_frequency |-> local[t].run.keyword_frequency,
                   temporal_trends |-> local[t].run.temporal_trends]
    IN  /\ pc[t] = "store"
        /\ allocated' = id
        /\ result' = StoreResult(result, id)
        /\ heap' = Live((id :> object) @@ heap, result', t, None)
        /\ local' = [local EXCEPT ![t] = [run |-> <<>>, made |-> <<id>>, result |-> None]]
        /\ pc' = [pc EXCEPT ![t] = "return"]
        /\ UNCHANGED <<req, resp, served, lastOk, fnVars>>

\* analyze line 55: return self._result
AnalyzeReturn(t) ==
    /\ pc[t] = "return"
    /\ local' = [local EXCEPT ![t].result = result]
    /\ lastOk' = local[t].made
    /\ pc' = [pc EXCEPT ![t] = "respond"]
    /\ UNCHANGED <<result, heap, allocated, req, resp, served, fnVars>>

\* main.py lines 306-317: the response, its records read back through
\* service.get_processed_records and its meta from the local `result`.
AnalyzeRespond(t) ==
    /\ pc[t] = "respond"
    /\ resp' =
          IF RequireResultRaises(result)
          THEN Response(t, [status |-> 500, detail |-> "RuntimeError"])
          ELSE Response(t,
                [status |-> 200,
                 body |-> [records |-> GetProcessedRecords(heap[result[1]], req[t].body.record_limit),
                           total_records |-> Len(heap[local[t].result[1]].data.rows),
                           has_temporal_data |-> heap[local[t].result[1]].temporal_trends # <<>>],
                 made |-> local[t].made, returned |-> local[t].result, from |-> result])
    /\ local' = [local EXCEPT ![t] = NoLocals]
    /\ req' = [req EXCEPT ![t] = NoRequest]
    /\ heap' = Live(heap, result, t, None)
    /\ pc' = [pc EXCEPT ![t] = "idle"]
    /\ UNCHANGED <<result, allocated, served, lastOk, fnVars>>

\* A GET endpoint of an accessor: _require_result, then the view; the
\* RuntimeError becomes HTTP 400.
Accessor(t, name) ==
    /\ pc[t] = "idle"
    /\ served < MaxRequests
    /\ served' = served + 1
    /\ resp' =
          IF RequireResultRaises(result)
          THEN [NoResponse EXCEPT !.thread = t, !.seq = served + 1, !.kind = name,
                   !.status = 400, !.detail = "No analysis found. Call /analyze first."]
          ELSE [NoResponse EXCEPT !.thread = t, !.seq = served + 1, !.kind = name,
                   !.status = 200, !.body = AccessorView(name, heap[result[1]]),
                   !.from = result]
    /\ UNCHANGED <<result, heap, allocated, pc, req, local, lastOk, fnVars>>

ThreadStep(t) ==
    \/ \E r \in AnalyzeRequests : AnalyzeCall(t, r)
    \/ AnalyzePipeline(t)
    \/ AnalyzeStore(t)
    \/ AnalyzeReturn(t)
    \/ AnalyzeRespond(t)
    \/ \E name \in Accessors : Accessor(t, name)

\* No pipeline function is called on its own / the service has handled nothing.
\* The services of main.py as constructed, without MongoDB configured: no
\* session, no translate request, no reaction, no user, nothing cached.
StoresEmpty ==
    /\ active_sessions = <<>>
    /\ translate_requests = <<>>
    /\ memory_reactions = <<>>
    /\ memory_users = <<>>
    /\ cache_memory = <<>>
    /\ time_time = 0
ModIdle == rng = 1 /\ ANALYZER = None /\ built = 0 /\ prev = <<>> /\ StoresEmpty
FnIdle == call = <<>> /\ df = <<>> /\ at = "unused" /\ ModIdle
SvcIdle ==
    /\ result = None
    /\ heap = <<>>
    /\ allocated = 0
    /\ pc = [t \in Threads |-> "idle"]
    /\ req = [t \in Threads |-> NoRequest]
    /\ local = [t \in Threads |-> NoLocals]
    /\ resp = NoResponse
    /\ served = 0
    /\ lastOk = None

\* AnalysisService.__init__: no result yet.
Init == SvcIdle /\ FnIdle

\* The request threads of the server run concurrently.
Next == \E t \in Threads : ThreadStep(t)
Spec == Init /\ [][Next]_vars

\* The same requests handled one at a time.
NextSeq == \E t \in Threads : (\A u \in Threads \ {t} : pc[u] = "idle") /\ ThreadStep(t)
SpecSeq == Init /\ [][NextSeq]_vars

----------------------------------------------------------------------------
(* load_kaggle_dataset called on its own                                   *)

\* The sequences of at most n different elements of S.
Arrangements(S, n) ==
    {q \in UNION {[1..k -> S] : k \in 0..n} : \A i, j \in DOMAIN q : q[i] = q[j] => i = j}
\* The sequences of at most n elements of S.
UpTo(S, n) == UNION {[1..k -> S] : k \in 0..n}

MaxCsvRows == 3

\* Cells of a CSV row as read: title and text (NA is an empty cell).
CsvCells ==
    { [title |-> <<"a">>, text |-> <<"b">>],
      [title |-> <<"a", " ">>, text |-> <<" ", "b">>],
      [title |-> <<"b">>, text |-> NA],
      [title |-> NA, text |-> <<"b">>],
      [title |-> NA, text |-> NA],
      [title |-> <<" ">>, text |-> <<"\t">>] }

\* The headers of the files read, with the columns meant as title, text and
\* date, and the cells of the date column from the first row on (repeated
\* for longer files): compact dates with a word among them, or all compact.
CsvHeaders ==
    { [header |-> <<"title", "text">>, title |-> "title", text |-> "text",
       date |-> NoColumn, stamps |-> <<>>],
      [header |-> <<"id", "Headline", "content">>, title |-> "Headline", text |-> "content",
       date |-> NoColumn, stamps |-> <<>>],
      [header |-> <<"title", "text", "timestamp">>, title |-> "title", text |-> "text",
       date |-> "timestamp", stamps |-> <<"20240101", "unknown", "20240102">>],
      [header |-> <<"title", "text", "timestamp">>, title |-> "title", text |-> "text",
       date |-> "timestamp", stamps |-> <<"20240101", "20240102", "">>] }

\* The file with header h whose rows hold the cells given.
CsvFile(h, cells) ==
    [exists |-> TRUE, header |-> h.header,
     rows |-> [i \in DOMAIN cells |->
                  IF h.date = NoColumn
                  THEN (h.title :> cells[i].title) @@ (h.text :> cells[i].text)
                  ELSE (h.title :> cells[i].title) @@ (h.text :> cells[i].text)
                       @@ (h.date :> h.stamps[((i - 1) % Len(h.stamps)) + 1])]]

\* chunksize: None, 0, or a positive number of rows.
ChunkSizes == {None, <<0>>, <<1>>, <<2>>}

IngestCalls ==
    {[src |-> CsvFile(h, cells), title_col |-> h.title, text_col |-> h.text, chunksize |-> c] :
        h \in CsvHeaders, cells \in UpTo(CsvCells, MaxCsvRows), c \in ChunkSizes}

InitIngest ==
    /\ SvcIdle
    /\ ModIdle
    /\ call \in IngestCalls
    /\ df = <<>>
    /\ at = "load_kaggle_dataset"

LoadCall ==
    /\ at = "load_kaggle_dataset"
    /\ df' = LoadKaggleDataset(call.src, call.chunksize)
    /\ at' = "loaded"
    /\ UNCHANGED <<call, svcVars, modVars>>

NextIngest == LoadCall
SpecIngest == InitIngest /\ [][NextIngest]_vars

----------------------------------------------------------------------------
(* preprocess_dataframe, then apply_lexicon_score or                       *)
(* apply_narrative_repetition, as analyze calls them                       *)

MaxTextRows == 3

\* analysis_text values, no two alike, as load_kaggle_dataset returns them.
RawTexts == <<TxtBreaking, TxtBreakingAgain, TxtPanic, TxtStop, TxtStopAgain,
              TxtHashtag, TxtMarks>>

\* The loaded frame whose rows have these analysis_text values.
LoadedFrame(texts) ==
    [columns |-> {"title", "text", "analysis_text"},
     rows |-> [i \in DOMAIN texts |->
                  [title |-> texts[i], text |-> <<>>, analysis_text |-> texts[i]]]]

\* Corpora of up to MaxTextRows rows, and one larger than the 6 neighbours
\* apply_narrative_repetition asks for.
TextFrames ==
    {LoadedFrame(q) : q \in Arrangements(Range(RawTexts), MaxTextRows)}
    \cup {LoadedFrame(RawTexts)}

\* The two calls of apply_lexicon_score in analyze, lines 46-47.
LexiconCalls ==
    { [lexicon |-> SUSPICIOUS_KEYWORDS, output_column |-> "keyword_suspicion_score"],
      [lexicon |-> EMOTIONAL_LEXICON, output_column |-> "emotional_intensity_score"] }

\* similarity_threshold values of AnalyzeRequest (0.0 <= threshold <= 1.0; default 0.82).
Thresholds == {0, 500, 820}

InitText ==
    /\ SvcIdle
    /\ ModIdle
    /\ call \in {[df |-> f, tokenize |-> FALSE] : f \in TextFrames}
    /\ df = <<>>
    /\ at = "preprocess_dataframe"

PreprocessCall ==
    /\ at = "preprocess_dataframe"
    /\ df' = PreprocessDataframe(call.df, call.tokenize)
    /\ at' = "cleaned"
    /\ UNCHANGED <<call, svcVars, modVars>>

LexiconCall ==
    /\ at = "cleaned"
    /\ \E c \in LexiconCalls :
          /\ call' = [df |-> df, lexicon |-> c.lexicon, output_column |-> c.output_column]
          /\ df' = ApplyLexiconScore(df, c.lexicon, c.output_column)
    /\ at' = "scored"
    /\ UNCHANGED <<svcVars, modVars>>

\* n_neighbors values: the default 6, which analyze uses, and the least.
NeighborChoices == {1, 6}

NarrativeCall ==
    /\ at = "cleaned"
    /\ \E threshold \in Thresholds, n_neighbors \in NeighborChoices :
          /\ call' = [df |-> df, similarity_threshold |-> threshold,
                      n_neighbors |-> n_neighbors]
          /\ df' \in ApplyNarrativeRepetition(df, threshold, n_neighbors)
    /\ at' = "narrative"
    /\ UNCHANGED <<svcVars, modVars>>

NextText == PreprocessCall \/ LexiconCall \/ NarrativeCall
SpecText == InitText /\ [][NextText]_vars

----------------------------------------------------------------------------
(* apply_explainable_risk_scoring called on its own                        *)

MaxRiskRows == 2

\* Rows as the stages before risk scoring leave them: sentiment compound
\* (1e-4), the two lexicon scores (tenths), narrative similarity (thousandths).
RiskRow(compound, keyword, emotion, similarity) ==
    [sentiment_compound |-> compound, keyword_suspicion_score |-> keyword,
     emotional_intensity_score |-> emotion, max_narrative_similarity |-> similarity]

RiskRows ==
    { RiskRow(0, 0, 0, 0),
      RiskRow(-2, 0, 0, 0),
      RiskRow(-4000, 14, 0, 0),
      RiskRow(-4004, 14, 0, 0),
      RiskRow(-8000, 32, 15, 0),
      RiskRow(-8004, 32, 15, 0),
      RiskRow(2500, 19, 20, 1000),
      RiskRow(-10000, 51, 35, 577) }

RiskFrames ==
    {[columns |-> {"sentiment_compound", "keyword_suspicion_score",
                   "emotional_intensity_score", "max_narrative_similarity"},
      rows |-> q] : q \in UpTo(RiskRows, MaxRiskRows)}

InitRisk ==
    /\ SvcIdle
    /\ ModIdle
    /\ call \in {[df |-> f] : f \in RiskFrames}
    /\ df = <<>>
    /\ at = "apply_explainable_risk_scoring"

RiskCall ==
    /\ at = "apply_explainable_risk_scoring"
    /\ df' = ApplyExplainableRiskScoring(call.df)
    /\ at' = "risk_scored"
    /\ UNCHANGED <<call, svcVars, modVars>>

NextRisk == RiskCall
SpecRisk == InitRisk /\ [][NextRisk]_vars

----------------------------------------------------------------------------
(* Properties of the service (Spec, SpecSeq)                               *)

\* C1: under concurrent analyze requests every /analyze response is built
\* from the request's own run: the AnalysisResult analyze() returned to it
\* (whence meta.total_records) and the one get_processed_records read the
\* records from are both the object this request's analyze built.
C1_OwnResult ==
    (resp.kind = "analyze" /\ resp.status = 200)
        => (resp.returned = resp.made /\ resp.from = resp.made)

\* The missing-result error of _require_result, as the accessor endpoints send it.
NoAnalysisResponse(r) == r.status = 400 /\ r.detail = "No analysis found. Call /analyze first."

\* C2: with the operations handled one after the other, an accessor raises
\* the "no analysis" error if and only if no analyze has returned before it,
\* and otherwise answers from the result of the last analyze that returned.
C2_AccessorsReflectLastAnalyze ==
    [][(resp'.seq # resp.seq /\ resp'.kind \in Accessors) =>
          /\ NoAnalysisResponse(resp') <=> (lastOk = None)
          /\ lastOk # None =>
                /\ resp'.status = 200
                /\ resp'.from = lastOk
                /\ resp'.body = AccessorView(resp'.kind, heap[lastOk[1]])]_vars

\* An accessor has answered from the second analysis, which replaced the first.
C2_Witness ==
    /\ resp.kind \in Accessors
    /\ resp.status = 200
    /\ resp.seq = 3
    /\ resp.from = <<2>>
    /\ lastOk = <<2>>

\* The sources load_kaggle_dataset must refuse: no file, or no column of the
\* header that is a title candidate, or none that is a text candidate.
HasCandidate(header, candidates) ==
    \E i \in DOMAIN header : ColumnLower[header[i]] \in Range(candidates)
BadSource(src) ==
    \/ ~src.exists
    \/ ~HasCandidate(src.header, TITLE_COLUMN_CANDIDATES)
    \/ ~HasCandidate(src.header, TEXT_COLUMN_CANDIDATES)
AnalyzingBadSource(r) == r.kind = "analyze" /\ BadSource(Sources[r.body.csv_path])

\* C3: an analyze of a source that does not exist or lacks a title or a text
\* column ends in DataIngestionError, and no step of that call stores a
\* result: the service's last result stays what it was.
C3_IngestionErrorStoresNothing ==
    [][\A t \in Threads :
          /\ (pc'[t] # pc[t] /\ (AnalyzingBadSource(req[t]) \/ AnalyzingBadSource(req'[t])))
                => (result' = result /\ allocated' = allocated)
          /\ (pc[t] = "pipeline" /\ pc'[t] # "pipeline" /\ AnalyzingBadSource(req[t]))
                => /\ pc'[t] = "idle"
                   /\ resp'.seq = req[t].seq
                   /\ resp'.status = 400
                   /\ resp'.detail = "DataIngestionError"]_vars

\* An analyze has failed with DataIngestionError after another had succeeded.
C3_Witness ==
    /\ resp.kind = "analyze"
    /\ resp.detail = "DataIngestionError"
    /\ result # None
    /\ lastOk = result

----------------------------------------------------------------------------
(* Properties of apply_explainable_risk_scoring (SpecRisk)                 *)

\* The four components of a scored row, in 1e-4 of a point.
Components(row) ==
    <<row.sentiment_component, row.keyword_component,
      row.emotion_component, row.narrative_component>>

\* C4: in every scored row each of the four components lies in [0, 100], and
\* risk_score is their mean rounded to 2 decimals: no multiple of 0.01 is
\* nearer to the mean, and so risk_score lies in [0, 100] too.
C4_ComponentsAndMean ==
    at = "risk_scored" =>
        /\ Len(df.rows) = Len(call.df.rows)
        /\ \A i \in DOMAIN df.rows :
              /\ \A k \in 1..4 : Components(df.rows[i])[k] \in 0..1000000
              /\ 400 * df.rows[i].risk_score - SumSeq(Components(df.rows[i])) \in -200..200
              /\ df.rows[i].risk_score \in 0..10000

\* A scored row with a keyword component strictly inside (0, 100) whose mean
\* is not a multiple of 0.01.
C4_Witness ==
    /\ at = "risk_scored"
    /\ \E i \in DOMAIN df.rows :
          /\ df.rows[i].keyword_component \in 1..999999
          /\ SumSeq(Components(df.rows[i])) % 400 # 0
          /\ df.rows[i].risk_score > 0

\* C5: the label of every scored row is fixed by its risk_score (in [0, 100])
\* alone: Low Risk up to and including 35, Medium Risk above 35 up to and
\* including 70, High Risk above 70.
C5_LabelEdges ==
    at = "risk_scored" =>
        \A i \in DOMAIN df.rows :
            LET score == df.rows[i].risk_score
                label == df.rows[i].risk_label
            IN  /\ label \in {"Low Risk", "Medium Risk", "High Risk"}
                /\ label = "Low Risk" <=> score <= 3500
                /\ label = "Medium Risk" <=> (3500 < score /\ score <= 7000)
                /\ label = "High Risk" <=> score > 7000

\* One frame scored 35.00 (Low) and 35.01 (Medium) side by side.
C5_Witness ==
    /\ at = "risk_scored"
    /\ \E i, j \in DOMAIN df.rows :
          /\ df.rows[i].risk_score = 3500 /\ df.rows[i].risk_label = "Low Risk"
          /\ df.rows[j].risk_score = 3501 /\ df.rows[j].risk_label = "Medium Risk"

----------------------------------------------------------------------------
(* Properties of apply_lexicon_score and apply_narrative_repetition        *)
(* (SpecText)                                                              *)

\* The positions of s where term stands as a whole word whatever the case of
\* the letters: the characters agree once lower-cased, and neither the
\* character before nor the one after is a word character.
WholeWordPositions(s, term) ==
    {i \in 1..(Len(s) - Len(term) + 1) :
        /\ \A k \in DOMAIN term : LowerChar(s[i + k - 1]) = LowerChar(term[k])
        /\ (i > 1 => ~IsWordChar(s[i - 1]))
        /\ (i + Len(term) <= Len(s) => ~IsWordChar(s[i + Len(term)]))}
WholeWordCount(s, term) == Cardinality(WholeWordPositions(s, term))

C7_IdenticalTextsFlagged ==
    (at = "narrative" /\ Len(call.df.rows) >= 2) =>
        /\ df.error = ""
        /\ \A i, j \in DOMAIN df.df.rows :
              (i # j /\ df.df.rows[i].cleaned_text = df.df.rows[j].cleaned_text) =>
                  /\ df.df.rows[i].max_narrative_similarity = 1000
                  /\ df.df.rows[i].narrative_repetition_flag = TRUE

\* The similarity of rows i and j of the frame: the cosine of their n-gram
\* count vectors, in thousandths.
RowSimilarity(frame, i, j) ==
    CosineSimilarity(Ngrams(FillNa(frame.rows[i].cleaned_text)),
                     Ngrams(FillNa(frame.rows[j].cleaned_text)))

\* C8: when a corpus of at least 2 rows has been vectorized, a row's
\* max_narrative_similarity is its highest similarity to a row other than
\* itself (its own index does not count, though it is among its nearest
\* neighbours), and narrative_repetition_flag is true exactly when that value
\* reaches the threshold.
C8_SelfExcluded ==
    (at = "narrative" /\ Len(call.df.rows) >= 2 /\ df.error = "") =>
        /\ Len(df.df.rows) = Len(call.df.rows)
        /\ \A i \in DOMAIN df.df.rows :
              /\ df.df.rows[i].max_narrative_similarity =
                    MaxOf({RowSimilarity(call.df, i, j) : j \in DOMAIN call.df.rows \ {i}})
              /\ df.df.rows[i].narrative_repetition_flag
                    <=> (df.df.rows[i].max_narrative_similarity >= call.similarity_threshold)

\* The corpus of 7 rows (more than the 6 neighbours asked for) scored with
\* threshold 0.5: a row whose best other row is a copy (1.0, flagged) and a
\* row with no copy (0.2, not flagged, though its similarity to itself is 1.0).
C8_Witness ==
    /\ at = "narrative"
    /\ df.error = ""
    /\ Len(df.df.rows) = 7
    /\ call.similarity_threshold = 500
    /\ \E i, j \in DOMAIN df.df.rows :
          /\ df.df.rows[i].max_narrative_similarity = 1000
          /\ df.df.rows[i].narrative_repetition_flag
          /\ df.df.rows[j].max_narrative_similarity = 200
          /\ ~df.df.rows[j].narrative_repetition_flag
          /\ RowSimilarity(call.df, j, j) = 1000

\* C9: for a corpus of fewer than 2 rows apply_narrative_repetition does not
\* vectorize, raises nothing, and returns every row with
\* max_narrative_similarity 0 and narrative_repetition_flag false.
C9_SmallCorpus ==
    (at = "narrative" /\ Len(call.df.rows) < 2) =>
        /\ df.error = ""
        /\ ~df.vectorized
        /\ Len(df.df.rows) = Len(call.df.rows)
        /\ \A i \in DOMAIN df.df.rows :
              /\ df.df.rows[i].max_narrative_similarity = 0
              /\ df.df.rows[i].narrative_repetition_flag = FALSE

\* A corpus of one row has been scored with threshold 0.0, which its
\* similarity 0 reaches, and is not flagged.
C9_Witness ==
    /\ at = "narrative"
    /\ Len(call.df.rows) = 1
    /\ call.similarity_threshold = 0
    /\ df.df.rows[1].max_narrative_similarity = 0
    /\ ~df.df.rows[1].narrative_repetition_flag

----------------------------------------------------------------------------
(* Properties of load_kaggle_dataset (SpecIngest)                          *)

\* The words joined by single spaces.
RECURSIVE JoinWords(_)
JoinWords(words) ==
    IF Len(words) = 0 THEN <<>>
    ELSE IF Len(words) = 1 THEN words[1]
    ELSE words[1] \o <<" ">> \o JoinWords(Tail(words))

\* Title and text of row i of the file read, a missing cell being empty, and
\* the whitespace-collapsed and trimmed title+text of the row.
SourceTitle(i) == FillNa(call.src.rows[i][call.title_col])
SourceText(i) == FillNa(call.src.rows[i][call.text_col])
SourceAnalysisText(i) == JoinWords(Split(SourceTitle(i) \o <<" ">> \o SourceText(i)))

\* The rows of the file to be kept: those with a non-empty analysis_text that
\* no earlier row has.
KeptSourceRows ==
    {i \in DOMAIN call.src.rows :
        /\ SourceAnalysisText(i) # <<>>
        /\ \A j \in 1..(i - 1) : SourceAnalysisText(j) # SourceAnalysisText(i)}

\* C10: once load_kaggle_dataset has returned, every record has a non-empty
\* analysis_text (title+text, whitespace collapsed and trimmed), no two
\* records have the same one, and the records are, in source order, the
\* first input row of each non-empty analysis_text.
C10_NonEmptyUniqueFirstKept ==
    (at = "loaded" /\ df.error = "") =>
        /\ \A m \in DOMAIN df.df.rows : df.df.rows[m].analysis_text # <<>>
        /\ \A m, n \in DOMAIN df.df.rows :
              df.df.rows[m].analysis_text = df.df.rows[n].analysis_text => m = n
        /\ Len(df.df.rows) = Cardinality(KeptSourceRows)
        /\ \A m \in DOMAIN df.df.rows :
              \E i \in KeptSourceRows :
                  /\ Cardinality({j \in KeptSourceRows : j <= i}) = m
                  /\ df.df.rows[m].analysis_text = SourceAnalysisText(i)
                  /\ df.df.rows[m].title = SourceTitle(i)
                  /\ df.df.rows[m].text = SourceText(i)

\* A file read in chunks of 2 rows whose third row repeats the analysis_text
\* of the first with other cells: the first has been kept, the third dropped.
C10_Witness ==
    /\ at = "loaded"
    /\ df.error = ""
    /\ call.chunksize = <<2>>
    /\ Len(call.src.rows) = 3
    /\ SourceAnalysisText(1) = SourceAnalysisText(3)
    /\ SourceTitle(1) # SourceTitle(3)
    /\ SourceAnalysisText(2) = <<>>
    /\ Len(df.df.rows) = 1
    /\ df.df.rows[1].title = SourceTitle(1)

----------------------------------------------------------------------------
(* detect_temporal_trends called on its own                                *)

MaxTrendDays == 5

\* The articles of one day as the stages before leave them: sentiment
\* compound (1e-4) and narrative_repetition_flag of each.  Two of the days
\* have the same |avg_sentiment| and the same number of repeated narratives.
Article(compound, flag) == [sentiment_compound |-> compound, narrative_repetition_flag |-> flag]
Repeat(x, n) == [i \in 1..n |-> x]
DaySamples ==
    { <<Article(0, FALSE)>>,
      Repeat(Article(-2500, TRUE), 2),
      Repeat(Article(2500, TRUE), 2),
      Repeat(Article(3750, TRUE), 3),
      Repeat(Article(-5000, TRUE), 4),
      Repeat(Article(7500, TRUE), 6),
      <<Article(5000, FALSE), Article(-2500, TRUE)>> }

\* The calendar day of the d-th day with articles, as a day number: days 1,
\* 2, 5, 6, 7, 10, ..., some adjacent, some with days without articles
\* between them.
TrendDate(d) == d + 2 * (d \div 3)

\* The scored frame holding the articles of the first Len(days) of these
\* days, the latest day first, and after them one article whose date did
\* not parse.
RECURSIVE DatedRows(_, _)
DatedRows(days, d) ==
    IF d = 0 THEN <<>>
    ELSE [i \in DOMAIN days[d] |->
             days[d][i] @@ [title |-> <<"a">>, date |-> [valid |-> TRUE, day |-> TrendDate(d)]]]
         \o DatedRows(days, d - 1)
TrendFrame(days, dated) ==
    LET rows == DatedRows(days, Len(days))
                \o <<Article(-9000, TRUE) @@ [title |-> <<"b">>, date |-> NaT]>>
        Undated(r) == [k \in DOMAIN r \ {"date"} |-> r[k]]
    IN  IF dated
        THEN [columns |-> {"title", "date", "sentiment_compound", "narrative_repetition_flag"},
              rows |-> rows]
        ELSE [columns |-> {"title", "sentiment_compound", "narrative_repetition_flag"},
              rows |-> [i \in DOMAIN rows |-> Undated(rows[i])]]

InitTrend ==
    /\ SvcIdle
    /\ ModIdle
    /\ call \in {[df |-> TrendFrame(days, dated), days |-> days] :
                    days \in Arrangements(DaySamples, MaxTrendDays), dated \in BOOLEAN}
    /\ df = <<>>
    /\ at = "detect_temporal_trends"

TrendCall ==
    /\ at = "detect_temporal_trends"
    /\ df' = DetectTemporalTrends(call.df)
    /\ at' = "trends"
    /\ UNCHANGED <<call, svcVars, modVars>>

NextTrend == TrendCall
SpecTrend == InitTrend /\ [][NextTrend]_vars

\* The per-day values: |avg_sentiment| as the fraction [num, den] and the
\* number of repeated narratives (den 1).
DayAbsSentiment(day) ==
    LET total == SumSeq([i \in DOMAIN day |-> day[i].sentiment_compound])
    IN  [num |-> IF total < 0 THEN -total ELSE total, den |-> Len(day)]
DayRepeated(day) ==
    [num |-> Cardinality({i \in DOMAIN day : day[i].narrative_repetition_flag}), den |-> 1]

\* Whether value k of the fractions xs has a z-score of at least 3/2 against
\* the mean and the population standard deviation of xs: the standard
\* deviation is positive and x - mean >= 3/2 * std.  The fractions are put on
\* the denominator L (in lowest terms X); with D(i) = N * X[i] - sum(X), the
\* deviation of value i is D(i) / N and the variance sum(D(i)^2) / N^3.
ZAtLeastThreeHalves(xs, k) ==
    LET L == Product([i \in DOMAIN xs |-> xs[i].den])
        raw == [i \in DOMAIN xs |-> xs[i].num * (L \div xs[i].den)]
        g == GcdAll(raw)
        X == IF g = 0 THEN raw ELSE [i \in DOMAIN raw |-> raw[i] \div g]
        N == Len(X)
        D == [i \in DOMAIN X |-> N * X[i] - SumSeq(X)]
        squares == SumSeq([i \in DOMAIN D |-> D[i] * D[i]])
    IN  /\ squares > 0
        /\ D[k] >= 0
        /\ 4 * D[k] * D[k] * N >= 9 * squares

\* C11: a day's sentiment_spike (narrative_spike) is true exactly when the
\* z-score of its |avg_sentiment| (repeated_narratives) against the mean and
\* population standard deviation over all day buckets is >= 1.5, z = 1.5
\* included; with a standard deviation of 0 no day is flagged.
C11_SpikeIffZAtLeast ==
    (at = "trends" /\ "date" \in call.df.columns) =>
        /\ Len(df) = Len(call.days)
        /\ \A k \in DOMAIN df :
              /\ df[k].sentiment_spike
                    <=> ZAtLeastThreeHalves([d \in DOMAIN call.days |->
                                                DayAbsSentiment(call.days[d])], k)
              /\ df[k].narrative_spike
                    <=> ZAtLeastThreeHalves([d \in DOMAIN call.days |->
                                                DayRepeated(call.days[d])], k)

\* Five days with |avg_sentiment| 0, 0.25, 0.375, 0.5, 0.75 and 0, 2, 3, 4, 6
\* repeated narratives: the z-scores of the last day are exactly 1.5 (mean
\* 0.375 and 3, standard deviation 0.25 and 2) and both its spikes are set,
\* those of the other days are not.
C11_Witness ==
    /\ at = "trends"
    /\ Len(df) = 5
    /\ [k \in 1..5 |-> df[k].repeated_narratives] = <<0, 2, 3, 4, 6>>
    /\ [k \in 1..5 |-> df[k].avg_sentiment] = <<0, -2500, 3750, -5000, 7500>>
    /\ df[5].sentiment_spike /\ df[5].narrative_spike
    /\ \A k \in 1..4 : ~df[k].sentiment_spike /\ ~df[k].narrative_spike

----------------------------------------------------------------------------
(* pipeline/bot_detection.py                                               *)
(*                                                                         *)
(* Times are whole seconds (datetimes read to the second) and isoformat()  *)
(* keeps their order.  Scores (frequency, text similarity, engagement      *)
(* spike, sentiment cluster, the signals) are in 1e-4, rounded down;       *)
(* botProbability and the signals of the result are in hundredths of a     *)
(* percent.                                                                *)

COORDINATED_KEYWORDS ==
    << <<"u", "r", "g", "e", "n", "t">>,
       <<"b", "r", "e", "a", "k", "i", "n", "g">>,
       <<"e", "x", "p", "o", "s", "e", "d">>,
       <<"l", "e", "a", "k">>,
       <<"p", "a", "n", "i", "c">>,
       <<"r", "i", "g", "g", "e", "d">>,
       <<"c", "o", "v", "e", "r", "u", "p">>,
       <<"t", "h", "r", "e", "a", "t">> >>

NEGATIVE_WORDS ==
    { <<"p", "a", "n", "i", "c">>,
      <<"t", "h", "r", "e", "a", "t">>,
      <<"c", "h", "a", "o", "s">>,
      <<"c", "r", "i", "s", "i", "s">>,
      <<"f", "e", "a", "r">>,
      <<"a", "t", "t", "a", "c", "k">>,
      <<"d", "a", "n", "g", "e", "r">>,
      <<"c", "o", "l", "l", "a", "p", "s", "e">>,
      <<"r", "i", "g", "g", "e", "d">>,
      <<"c", "o", "r", "r", "u", "p", "t">> }

\* _normalize: the value clamped to [lower, upper] (NaN and infinities do not
\* arise from the integer quotients used here).
Normalize(value, lower, upper) ==
    IF value < lower THEN lower ELSE IF value > upper THEN upper ELSE value

\* _tokenize: re.findall(r"[a-zA-Z']+", text.lower()), the maximal runs of
\* letters and apostrophes of the lower-cased text.
IsTokenChar(c) == c \in Range(LowerLetters) \cup {"'"}
RECURSIVE TokenRun(_, _)
TokenRun(s, i) == IF i <= Len(s) /\ IsTokenChar(s[i]) THEN 1 + TokenRun(s, i + 1) ELSE 0
RECURSIVE FindTokens(_, _)
FindTokens(s, i) ==
    IF i > Len(s) THEN <<>>
    ELSE IF IsTokenChar(s[i])
    THEN <<SubSeq(s, i, i + TokenRun(s, i) - 1)>> \o FindTokens(s, i + TokenRun(s, i))
    ELSE FindTokens(s, i + 1)
BotTokenize(text) == FindTokens(Lower(text), 1)

\* _sentiment_score of a text with these tokens, as the fraction
\* negative_hits / len(tokens); 0.0 (0 / 1) without tokens.
SentimentScore(tokens) ==
    IF Len(tokens) = 0 THEN [num |-> 0, den |-> 1]
    ELSE [num |-> Cardinality({i \in DOMAIN tokens : tokens[i] \in NEGATIVE_WORDS}),
          den |-> Len(tokens)]
\* score >= percent / 100
ScoreAtLeast(score, percent) == 100 * score.num >= percent * score.den

\* The float num / den in millionths, rounded down, for num >= 0 and
\* 0 < den < 2 * 10^6; the fraction is taken three digits at a time to stay
\* within 32 bits.
Millionths(num, den) ==
    (num \div den) * 1000000
    + (((num % den) * 1000) \div den) * 1000
    + ((((num % den) * 1000) % den) * 1000) \div den

\* _jaccard_similarity of two texts with these tokens, in millionths.
JaccardSimilarity(tokens_a, tokens_b) ==
    IF Len(tokens_a) = 0 \/ Len(tokens_b) = 0 THEN 0
    ELSE Millionths(Cardinality(Range(tokens_a) \cap Range(tokens_b)),
                    Cardinality(Range(tokens_a) \cup Range(tokens_b)))

\* datetime.isoformat() of an instant of whole seconds in UTC: the text
\* "YYYY-MM-DDTHH:MM:SS+00:00" as its fields <<day, hour, minute, second>>,
\* the date as the number of its day.  Every field has a fixed width, so
\* two such texts compare as str the way their fields compare in order.
IsoFormat(ts) ==
    <<ts \div 86400, (ts % 86400) \div 3600, (ts % 3600) \div 60, ts % 60>>
\* str comparison a >= b of two such texts.
RECURSIVE IsoAtLeast(_, _)
IsoAtLeast(a, b) ==
    IF Len(a) = 0 \/ Len(b) = 0 THEN Len(a) >= Len(b)
    ELSE IF Head(a) # Head(b) THEN Head(a) > Head(b)
    ELSE IsoAtLeast(Tail(a), Tail(b))

\* _to_bucket: the start of the 10-minute window of ts, as text.
ToBucket(ts) ==
    <<IsoFormat(ts)[1], IsoFormat(ts)[2], (IsoFormat(ts)[3] \div 10) * 10, 0>>

\* `keyword in lower_text`: keyword is a substring of the text.
Contains(s, term) ==
    \E i \in 1..(Len(s) - Len(term) + 1) : SubSeq(s, i, i + Len(term) - 1) = term
\* [keyword for keyword in COORDINATED_KEYWORDS if keyword in text.lower()]
PostKeywords(text) ==
    {k \in DOMAIN COORDINATED_KEYWORDS : Contains(Lower(text), COORDINATED_KEYWORDS[k])}

\* sorted(posts, key=posted_at): a stable sort, equal keys keep their order.
RECURSIVE InsertByTime(_, _)
InsertByTime(sorted, post) ==
    IF Len(sorted) = 0 THEN <<post>>
    ELSE IF sorted[Len(sorted)].posted_at <= post.posted_at THEN Append(sorted, post)
    ELSE Append(InsertByTime(SubSeq(sorted, 1, Len(sorted) - 1), post), sorted[Len(sorted)])
RECURSIVE SortedByTime(_)
SortedByTime(posts) ==
    IF Len(posts) = 0 THEN <<>>
    ELSE InsertByTime(SortedByTime(SubSeq(posts, 1, Len(posts) - 1)), posts[Len(posts)])

\* str(article.get(key) or ""): the field as text, a missing one empty.
Field(article, key) == IF key \in DOMAIN article THEN article[key] ELSE <<>>

\* " ".join(part for part in parts if part)
RECURSIVE JoinParts(_)
JoinParts(parts) ==
    IF Len(parts) = 0 THEN <<>>
    ELSE IF Len(Head(parts)) = 0 THEN JoinParts(Tail(parts))
    ELSE IF JoinParts(Tail(parts)) = <<>> THEN Head(parts)
    ELSE Head(parts) \o <<" ">> \o JoinParts(Tail(parts))

NoContent == <<"N", "o", " ", "c", "o", "n", "t", "e", "n", "t">>
DefaultSource == <<"n", "e", "w", "s", "-", "s", "o", "u", "r", "c", "e">>
DigitChar == <<"0", "1", "2", "3">>

\* _news_to_posts for the article at `index` (from 0); publishedAt is None
\* when the field does not parse and else the instant it gives.
NewsPost(article, index, base_now) ==
    LET published == IF article.publishedAt = None THEN base_now - index * 180
                     ELSE article.publishedAt[1]
        joined == Strip(JoinParts(<<Field(article, "title"), Field(article, "description"),
                                    Field(article, "content")>>))
        text == IF joined = <<>> THEN NoContent ELSE joined
        source_name == IF Field(article, "source") = <<>> THEN DefaultSource
                       ELSE Field(article, "source")
    IN  [post_id |-> [kind |-> "news", index |-> index,
                      text |-> SubSeq(text, 1, IF Len(text) < 80 THEN Len(text) ELSE 80)],
         account |-> [i \in DOMAIN source_name |->
                         IF source_name[i] = " " THEN "_" ELSE LowerChar(source_name[i])]
                     \o <<"_", DigitChar[(index % 4) + 1]>>,
         text |-> text,
         posted_at |-> published,
         account_created_at |-> published - (180 + (index % 45)) * 86400,
         likes |-> 40 + ((index * 7) % 200),
         shares |-> 15 + ((index * 5) % 80),
         retweets |-> 8 + ((index * 3) % 60),
         source |-> "news"]
NewsToPosts(news_records, base_now) ==
    [i \in DOMAIN news_records |-> NewsPost(news_records[i], i - 1, base_now)]

\* The values random.randint returns in the loop of
\* generate_synthetic_coordinated_posts, one row per index: randint(4, 18),
\* randint(0, 4), randint(0, 18) and, when index % 7 # 0, randint(120, 420),
\* randint(80, 260), randint(70, 230) (else the fixed 950, 510, 430).
\* MersenneTwister[1] is what the generator yields right after
\* random.seed(42); [2] and [3] are what it yields when the loop is run a
\* second and a third time without seeding again.
MersenneTwister ==
    << << <<14, 0, 0, 950, 510, 430>>,
          <<15, 2, 7, 234, 115, 96>>,
          <<14, 4, 2, 336, 88, 77>>,
          <<5, 1, 7, 378, 234, 76>>,
          <<12, 1, 17, 334, 136, 184>>,
          <<13, 2, 0, 201, 258, 178>>,
          <<9, 2, 4, 230, 166, 96>>,
          <<5, 3, 3, 950, 510, 430>>,
          <<9, 2, 8, 142, 197, 207>>,
          <<5, 3, 2, 402, 155, 230>>,
          <<13, 2, 18, 218, 260, 87>>,
          <<4, 1, 9, 160, 139, 95>>,
          <<10, 2, 14, 306, 121, 164>>,
          <<9, 1, 8, 156, 235, 113>>,
          <<12, 1, 5, 950, 510, 430>>,
          <<11, 3, 8, 405, 136, 153>>,
          <<17, 0, 7, 136, 160, 172>>,
          <<8, 0, 6, 410, 160, 124>>,
          <<14, 3, 12, 354, 116, 137>>,
          <<6, 1, 17, 395, 147, 219>>,
          <<10, 4, 12, 305, 136, 105>>,
          <<12, 3, 2, 950, 510, 430>>,
          <<16, 0, 3, 198, 240, 110>>,
          <<16, 3, 2, 317, 177, 222>>,
          <<11, 4, 8, 403, 82, 99>>,
          <<14, 4, 8, 294, 108, 145>>,
          <<10, 1, 14, 121, 147, 198>>,
          <<16, 1, 16, 174, 240, 146>>,
          <<17, 4, 6, 950, 510, 430>>,
          <<6, 2, 5, 396, 215, 70>>,
          <<13, 2, 15, 129, 108, 162>>,
          <<18, 2, 7, 149, 141, 215>>,
          <<5, 0, 15, 155, 216, 102>>,
          <<6, 3, 17, 204, 147, 205>>,
          <<17, 4, 13, 228, 218, 121>>,
          <<15, 2, 12, 950, 510, 430>> >>,
       << <<14, 2, 14, 950, 510, 430>>,
          <<18, 4, 14, 181, 143, 127>>,
          <<5, 2, 0, 403, 138, 220>>,
          <<7, 0, 2, 150, 138, 87>>,
          <<18, 0, 10, 156, 211, 130>>,
          <<8, 3, 6, 396, 113, 216>>,
          <<13, 3, 7, 362, 184, 118>>,
          <<5, 0, 13, 950, 510, 430>>,
          <<9, 3, 13, 359, 93, 95>>,
          <<4, 3, 10, 175, 143, 119>>,
          <<7, 4, 14, 191, 188, 116>>,
          <<8, 3, 7, 158, 193, 210>>,
          <<5, 0, 17, 127, 103, 130>>,
          <<6, 3, 15, 366, 134, 172>>,
          <<18, 0, 5, 950, 510, 430>>,
          <<10, 0, 12, 255, 196, 143>>,
          <<10, 4, 15, 199, 128, 145>>,
          <<7, 0, 18, 397, 95, 150>>,
          <<4, 0, 18, 364, 208, 205>>,
          <<6, 0, 16, 161, 127, 87>>,
          <<13, 0, 7, 326, 110, 215>>,
          <<7, 4, 1, 950, 510, 430>>,
          <<13, 0, 13, 418, 224, 203>>,
          <<9, 2, 6, 280, 141, 137>>,
          <<10, 1, 9, 354, 160, 88>>,
          <<4, 3, 18, 171, 98, 207>>,
          <<7, 4, 8, 187, 169, 87>>,
          <<18, 1, 11, 265, 120, 182>>,
          <<17, 4, 9, 950, 510, 430>>,
          <<13, 4, 0, 403, 156, 96>>,
          <<18, 1, 8, 179, 107, 211>>,
          <<6, 2, 9, 227, 167, 122>>,
          <<14, 2, 16, 370, 144, 83>>,
          <<5, 3, 8, 142, 80, 155>>,
          <<16, 1, 8, 202, 193, 211>>,
          <<15, 3, 17, 950, 510, 430>> >>,
       << <<4, 0, 2, 950, 510, 430>>,
          <<18, 1, 17, 138, 174, 219>>,
          <<12, 1, 13, 185, 90, 148>>,
          <<9, 0, 11, 227, 254, 133>>,
          <<14, 0, 11, 406, 184, 228>>,
          <<15, 1, 7, 203, 125, 175>>,
          <<4, 1, 10, 330, 251, 133>>,
          <<8, 1, 3, 950, 510, 430>>,
          <<10, 0, 15, 233, 131, 187>>,
          <<9, 2, 7, 234, 86, 119>>,
          <<10, 2, 8, 155, 151, 159>>,
          <<14, 4, 12, 394, 164, 77>>,
          <<5, 2, 5, 417, 147, 79>>,
          <<5, 4, 13, 296, 160, 181>>,
          <<13, 4, 3, 950, 510, 430>>,
          <<10, 4, 6, 250, 91, 181>>,
          <<4, 4, 17, 220, 173, 180>>,
          <<5, 2, 10, 183, 156, 199>>,
          <<8, 3, 10, 326, 258, 145>>,
          <<12, 1, 6, 335, 250, 167>>,
          <<14, 1, 18, 274, 183, 210>>,
          <<17, 0, 9, 950, 510, 430>>,
          <<8, 1, 13, 416, 235, 152>>,
          <<11, 3, 14, 229, 210, 191>>,
          <<16, 1, 2, 265, 211, 228>>,
          <<9, 0, 7, 278, 137, 120>>,
          <<6, 0, 1, 245, 201, 226>>,
          <<17, 0, 14, 332, 241, 217>>,
          <<7, 3, 15, 950, 510, 430>>,
          <<10, 1, 4, 122, 107, 178>>,
          <<7, 1, 16, 357, 92, 212>>,
          <<7, 0, 14, 188, 198, 205>>,
          <<12, 4, 10, 346, 236, 199>>,
          <<10, 4, 14, 201, 201, 185>>,
          <<8, 1, 8, 386, 204, 230>>,
          <<7, 2, 14, 950, 510, 430>> >> >>

\* random.seed(42): the generator is at the start of the stream of seed 42.
Seed42_Unseeded(state) == state
Seed42(state) == 1
\* The generator after the loop has drawn its values.
Drawn(state) == IF state < Len(MersenneTwister) THEN state + 1 ELSE state

\* template_pool for the topic.
TemplatePool(topic) ==
    << <<"U", "R", "G", "E", "N", "T", ":", " ">>
       \o topic \o
       <<" ", "l", "e", "a", "k", " ", "j", "u", "s", "t", " ", "e", "x",
         "p", "o", "s", "e", "d", " ", "b", "y", " ", "i", "n", "s", "i",
         "d", "e", "r", "s", ".", " ", "S", "h", "a", "r", "e", " ", "n",
         "o", "w", " ", "b", "e", "f", "o", "r", "e", " ", "d", "e", "l",
         "e", "t", "i", "o", "n", ".">>,
       <<"B", "r", "e", "a", "k", "i", "n", "g", " ", "t", "h", "r", "e", "a", "d",
  ":", " ", "h", "i", "d", "d", "e", "n", " ", "t", "r", "u", "t", "h", " ",
  "a", "b", "o", "u", "t", " ">>
       \o topic \o
       <<" ", "i", "s", " ", "b", "e", "i", "n", "g", " ", "s", "u", "p",
         "p", "r", "e", "s", "s", "e", "d", " ", "b", "y", " ", "m", "a",
         "i", "n", "s", "t", "r", "e", "a", "m", " ", "m", "e", "d", "i",
         "a", ".">>,
       <<"C", "i", "t", "i", "z", "e", "n", "s", " ", "a", "l", "e", "r", "t", "!", " ">>
       \o topic \o
       <<" ", "e", "v", "i", "d", "e", "n", "c", "e", " ", "c", "o", "n",
         "f", "i", "r", "m", "s", " ", "a", " ", "c", "o", "o", "r", "d",
         "i", "n", "a", "t", "e", "d", " ", "c", "o", "v", "e", "r", "u",
         "p", ".">>,
       <<"A", "c", "t", " ", "n", "o", "w", ".", " ">>
       \o topic \o
       <<" ", "c", "r", "i", "s", "i", "s", " ", "u", "p", "d", "a", "t",
         "e", " ", "r", "e", "v", "e", "a", "l", "s", " ", "a", " ", "s",
         "e", "r", "i", "o", "u", "s", " ", "t", "h", "r", "e", "a", "t",
         " ", "t", "o", " ", "p", "u", "b", "l", "i", "c", " ", "s", "a",
         "f", "e", "t", "y", ".">> >>

bot_accounts ==
    << <<"n", "e", "w", "s", "_", "u", "p", "d", "a", "t", "e", "2", "4", "7">>,
       <<"t", "r", "u", "t", "h", "_", "w", "a", "t", "c", "h", "_", "0", "1">>,
       <<"c", "i", "t", "i", "z", "e", "n", "_", "a", "l", "e", "r", "t", "_", "n", "o", "w">>,
       <<"d", "a", "i", "l", "y", "b", "u", "z", "z", "f", "l", "a", "s", "h">>,
       <<"n", "e", "w", "s", "_", "u", "p", "d", "a", "t", "e", "2", "4", "7">>,
       <<"t", "r", "e", "n", "d", "_", "s", "i", "g", "n", "a", "l", "_", "x">> >>

HashtagSuffix == <<" ", "#", "b", "r", "e", "a", "k", "i", "n", "g", " ", "#", "u", "r", "g", "e", "n", "t">>

\* The synthetic post of `index` (from 0), given the values drawn for it.
SyntheticPost(index, topic, base_time, drawn) ==
    LET account == bot_accounts[(index % Len(bot_accounts)) + 1]
        text == Strip(TemplatePool(topic)[(index % 4) + 1] \o <<" ">>
                      \o (IF index % 3 # 0 THEN <<>> ELSE HashtagSuffix))
    IN  [post_id |-> [kind |-> "synthetic", index |-> index, account |-> account,
                      text |-> SubSeq(text, 1, IF Len(text) < 50 THEN Len(text) ELSE 50)],
         account |-> account,
         text |-> text,
         posted_at |-> base_time - ((index \div 12) * 25 * 60 + (index % 12) * drawn[1]),
         account_created_at |-> base_time - (drawn[2] * 86400 + drawn[3] * 3600),
         likes |-> drawn[4],
         shares |-> drawn[5],
         retweets |-> drawn[6],
         source |-> "synthetic-demo"]

SyntheticSize == 36
SeedLimit == 12

\* generate_synthetic_coordinated_posts with the generator in `state` after
\* random.seed(42): the posts, sorted by posted_at.
GenerateSyntheticCoordinatedPosts_AllSeeds(seed_posts, topic, base_time, state) ==
    SortedByTime([i \in 1..SyntheticSize |->
                     SyntheticPost(i - 1, topic, base_time, MersenneTwister[state][i])]
                 \o seed_posts)

GenerateSyntheticCoordinatedPosts(seed_posts, topic, base_time, state) ==
    SortedByTime([i \in 1..SyntheticSize |->
                     SyntheticPost(i - 1, topic, base_time, MersenneTwister[state][i])]
                 \o SubSeq(seed_posts, 1,
                           IF Len(seed_posts) < SeedLimit THEN Len(seed_posts) ELSE SeedLimit))

\* A post with what the loops derive from it again and again: its tokens,
\* the coordinated keywords it contains, its engagement and its bucket.
Engagement(post) == post.likes + post.shares + post.retweets
Derived(post) ==
    [post |-> post,
     account |-> post.account,
     tokens |-> BotTokenize(post.text),
     keywords |-> PostKeywords(post.text),
     engagement |-> Engagement(post),
     bucket |-> ToBucket(post.posted_at)]
DerivedAll(posts) == [i \in DOMAIN posts |-> Derived(posts[i])] \o <<>>

\* Lines 236-238 on integers: with n values of sum S, n * engagement_mean = S
\* and n * engagement_std = sqrt(V) for V = n * sum(x^2) - S^2, taken about
\* the centre c = S \div n to keep the squares small; std is 1.0 when the
\* variance is 0.  `spread` is n * engagement_std rounded down.
EngagementStats(items) ==
    LET n == Len(items)
        S == SumSeq([i \in DOMAIN items |-> items[i].engagement])
        Moment(c) ==
            n * SumSeq([i \in DOMAIN items |->
                           (items[i].engagement - c) * (items[i].engagement - c)])
            - (S - n * c) * (S - n * c)
        Stats(V) == [n |-> n, sum |-> S, spread |-> IF V > 0 THEN ISqrt(V) ELSE n]
    IN  Stats(Moment(S \div n))

\* max(0.0, (engagement - engagement_mean) / engagement_std), in millionths.
SpikeValue(engagement, stats) ==
    IF stats.n * engagement - stats.sum <= 0 THEN 0
    ELSE Millionths(stats.n * engagement - stats.sum, stats.spread)
\* engagement > engagement_mean + engagement_std
EngagementOutlier(engagement, stats) ==
    stats.n * engagement - stats.sum > stats.spread

\* Lines 254-260: the average Jaccard similarity of the pairs left < right
\* of the account's posts, 0 when there is no pair.
PairCount(n) == (n * (n - 1)) \div 2
AverageSimilarity(mine) ==
    SumSeq([left \in DOMAIN mine |->
               SumSeq([right \in DOMAIN mine |->
                          IF left < right
                          THEN JaccardSimilarity(mine[left].tokens, mine[right].tokens)
                          ELSE 0])])
    \div (IF PairCount(Len(mine)) < 1 THEN 1 ELSE PairCount(Len(mine)))

\* Lines 295-300.
Classification_Above40(bot_probability) ==
    IF bot_probability >= 7000 THEN "High Bot Probability"
    ELSE IF bot_probability > 4000 THEN "Medium Bot Suspicion"
    ELSE "Low Bot Risk"

Classification(bot_probability) ==
    IF bot_probability >= 7000 THEN "High Bot Probability"
    ELSE IF bot_probability >= 4000 THEN "Medium Bot Suspicion"
    ELSE "Low Bot Risk"

\* Lines 287-293: bot_probability, in hundredths of a percent, from the four
\* scores in millionths.
BotProbability(frequency, similarity, spike, cluster) ==
    RoundHalfEven(Normalize(32 * frequency + 28 * similarity + 22 * spike + 18 * cluster,
                            0, 100000000), 10000)

\* Lines 246-252: frequency_score of an account's posts (sorted by time).
\* posts_per_30m / 6.0 is count * 300 / span for the span in seconds, at
\* least the 60 seconds of time_span_minutes = 1.0.
TimeSpan_HourFloor(mine) ==
    IF mine[Len(mine)].post.posted_at - mine[1].post.posted_at < 3600 THEN 3600
    ELSE mine[Len(mine)].post.posted_at - mine[1].post.posted_at

TimeSpan(mine) ==
    IF mine[Len(mine)].post.posted_at - mine[1].post.posted_at < 60 THEN 60
    ELSE mine[Len(mine)].post.posted_at - mine[1].post.posted_at
FrequencyScore(mine) ==
    IF Len(mine) * 300 >= TimeSpan(mine) THEN 1000000
    ELSE Millionths(Len(mine) * 300, TimeSpan(mine))

\* Lines 263-285: the other scores and signals of the account.
EngagementSpikeScore(mine, stats) ==
    Normalize(SumSeq([i \in DOMAIN mine |-> SpikeValue(mine[i].engagement, stats)])
              \div (3 * Len(mine)), 0, 1000000)
SentimentClusterScore(mine) ==
    Normalize((Cardinality({i \in DOMAIN mine : ScoreAtLeast(SentimentScore(mine[i].tokens), 8)})
               * 1000000) \div Len(mine), 0, 1000000)
NewAccountSignal(mine, now) ==
    IF \E i \in DOMAIN mine : now - mine[i].post.account_created_at <= 7 * 86400
    THEN 1000000 ELSE 0
KeywordBurstSignal(mine) ==
    Normalize((SumSeq([i \in DOMAIN mine |-> Cardinality(mine[i].keywords)]) * 1000000)
              \div (IF Len(mine) < 3 THEN 3 ELSE Len(mine)), 0, 1000000)

\* Lines 302-322: the entry of account_results, from the scores in
\* millionths; signals are in hundredths of a percent, the explanation in
\* tenths.  `scores` keeps the scores of lines 252-272 as they were before
\* the rounding of the signals.
AccountResult_WeighsNewAccount(account, mine, frequency, similarity, spike, cluster, name_count, now) ==
    [account |-> account,
     postCount |-> Len(mine),
     botProbability |-> BotProbability(frequency, similarity, spike,
                                       IF cluster < NewAccountSignal(mine, now)
                                       THEN NewAccountSignal(mine, now) ELSE cluster),
     classification |-> Classification(BotProbability(frequency, similarity, spike,
                                       IF cluster < NewAccountSignal(mine, now)
                                       THEN NewAccountSignal(mine, now) ELSE cluster)),
     signals |-> [frequency |-> RoundHalfEven(frequency, 100),
                  textSimilarity |-> RoundHalfEven(similarity, 100),
                  engagementSpike |-> RoundHalfEven(spike, 100),
                  sentimentCluster |-> RoundHalfEven(cluster, 100),
                  duplicateUsernames |-> IF name_count > 4 THEN 10000 ELSE 0,
                  newAccount |-> RoundHalfEven(NewAccountSignal(mine, now), 100),
                  keywordBurst |-> RoundHalfEven(KeywordBurstSignal(mine), 100)],
     scores |-> [frequency |-> frequency, text_similarity |-> similarity,
                 engagement_spike |-> spike, sentiment_cluster |-> cluster],
     explanation |-> [frequency |-> RoundHalfEven(frequency, 1000),
                      similarity |-> RoundHalfEven(similarity, 1000),
                      engagement_spike |-> RoundHalfEven(spike, 1000),
                      sentiment_cluster |-> RoundHalfEven(cluster, 1000)]]

AccountResult(account, mine, frequency, similarity, spike, cluster, name_count, now) ==
    [account |-> account,
     postCount |-> Len(mine),
     botProbability |-> BotProbability(frequency, similarity, spike, cluster),
     classification |-> Classification(BotProbability(frequency, similarity, spike, cluster)),
     signals |-> [frequency |-> RoundHalfEven(frequency, 100),
                  textSimilarity |-> RoundHalfEven(similarity, 100),
                  engagementSpike |-> RoundHalfEven(spike, 100),
                  sentimentCluster |-> RoundHalfEven(cluster, 100),
                  duplicateUsernames |-> IF name_count > 4 THEN 10000 ELSE 0,
                  newAccount |-> RoundHalfEven(NewAccountSignal(mine, now), 100),
                  keywordBurst |-> RoundHalfEven(KeywordBurstSignal(mine), 100)],
     scores |-> [frequency |-> frequency, text_similarity |-> similarity,
                 engagement_spike |-> spike, sentiment_cluster |-> cluster],
     explanation |-> [frequency |-> RoundHalfEven(frequency, 1000),
                      similarity |-> RoundHalfEven(similarity, 1000),
                      engagement_spike |-> RoundHalfEven(spike, 1000),
                      sentiment_cluster |-> RoundHalfEven(cluster, 1000)]]

\* Lines 243-322 for the posts `mine` of one account, sorted by posted_at.
AccountProfile(account, mine, stats, now) ==
    AccountResult(account, mine, FrequencyScore(mine),
                  Normalize(AverageSimilarity(mine), 0, 1000000),
                  EngagementSpikeScore(mine, stats), SentimentClusterScore(mine),
                  Len(mine), now)

\* posts_by_account: the accounts in the order of their first post, and
\* the posts of an account in order.
RECURSIVE AccountOrder(_, _)
AccountOrder(items, seen) ==
    IF Len(items) = 0 THEN <<>>
    ELSE IF Head(items).account \in seen THEN AccountOrder(Tail(items), seen)
    ELSE <<Head(items).account>> \o AccountOrder(Tail(items), seen \cup {Head(items).account})
PostsOf(items, account) == SelectSeq(items, LAMBDA d : d.account = account)

\* Lines 324-352: is_suspicious, and the entry of suspicious_posts.
IsSuspicious_AccountOnly(item, classification, stats) ==
    classification # "Low Bot Risk"

IsSuspicious(item, classification, stats) ==
    \/ classification # "Low Bot Risk"
    \/ ScoreAtLeast(SentimentScore(item.tokens), 12)
    \/ Cardinality(item.keywords) >= 2
    \/ EngagementOutlier(item.engagement, stats)
SuspiciousPost(item, classification) ==
    [postId |-> item.post.post_id,
     account |-> item.post.account,
     text |-> item.post.text,
     source |-> item.post.source,
     postedAt |-> IsoFormat(item.post.posted_at),
     engagement |-> [likes |-> item.post.likes, shares |-> item.post.shares,
                     retweets |-> item.post.retweets],
     badges |-> <<classification,
                  IF Cardinality(item.keywords) >= 2 THEN "Keyword Burst" ELSE "Pattern Match",
                  IF ScoreAtLeast(SentimentScore(item.tokens), 12) THEN "Negative Cluster"
                  ELSE "Engagement Spike">>]
SuspiciousOf(mine, classification, stats) ==
    [i \in DOMAIN SelectSeq(mine, LAMBDA d : IsSuspicious(d, classification, stats)) |->
        SuspiciousPost(SelectSeq(mine, LAMBDA d : IsSuspicious(d, classification, stats))[i],
                       classification)]

\* The loop of lines 243-352 over the accounts: account_results and
\* suspicious_posts as it leaves them.
RECURSIVE AccountLoop(_, _, _, _)
AccountLoop(accounts, items, stats, now) ==
    IF Len(accounts) = 0 THEN [account_results |-> <<>>, suspicious_posts |-> <<>>]
    ELSE LET Step(profile, rest) ==
                 [account_results |-> <<profile>> \o rest.account_results,
                  suspicious_posts |->
                      SuspiciousOf(PostsOf(items, Head(accounts)), profile.classification, stats)
                      \o rest.suspicious_posts]
         IN  Step(AccountProfile(Head(accounts), PostsOf(items, Head(accounts)), stats, now),
                  AccountLoop(Tail(accounts), items, stats, now))

\* sorted(xs, key=..., reverse=True) on entries [key, value]: the values by
\* key descending, equal keys keeping their order.  A key is a tuple of
\* numbers, compared field by field: <<n>> for a number, the fields of its
\* text for a timestamp.
RECURSIVE InsertDescending(_, _)
InsertDescending(sorted, e) ==
    IF Len(sorted) = 0 THEN <<e>>
    ELSE IF IsoAtLeast(sorted[Len(sorted)].key, e.key) THEN Append(sorted, e)
    ELSE Append(InsertDescending(SubSeq(sorted, 1, Len(sorted) - 1), e), sorted[Len(sorted)])
RECURSIVE SortEntries(_)
SortEntries(es) ==
    IF Len(es) = 0 THEN <<>>
    ELSE InsertDescending(SortEntries(SubSeq(es, 1, Len(es) - 1)), es[Len(es)])
Unkeyed(es) == [i \in DOMAIN es |-> es[i].value] \o <<>>
SortedDescending(xs, Key(_)) ==
    Unkeyed(SortEntries([j \in DOMAIN xs |-> [key |-> Key(xs[j]), value |-> xs[j]]] \o <<>>))

SuspiciousCap == 18
\* Line 355: sorted by postedAt, latest first, and the first 18 of them.
CapSuspicious_Oldest(suspicious_posts) ==
    SubSeq(SortedDescending(suspicious_posts, LAMBDA p : p.postedAt),
           IF Len(suspicious_posts) < SuspiciousCap THEN 1
           ELSE Len(suspicious_posts) - SuspiciousCap + 1,
           Len(suspicious_posts))

CapSuspicious(suspicious_posts) ==
    SubSeq(SortedDescending(suspicious_posts, LAMBDA p : p.postedAt), 1,
           IF Len(suspicious_posts) < SuspiciousCap THEN Len(suspicious_posts) ELSE SuspiciousCap)

\* Lines 357-362.
RiskDistribution(account_results) ==
    [k \in 1..3 |->
        [category |-> <<"Low Bot Risk", "Medium Bot Suspicion", "High Bot Probability">>[k],
         count |-> Cardinality({i \in DOMAIN account_results :
                       account_results[i].classification =
                       <<"Low Bot Risk", "Medium Bot Suspicion", "High Bot Probability">>[k]})]]

\* timeline_counter: the buckets in the order of their first post, with
\* their counts.
RECURSIVE BucketOrder(_, _)
BucketOrder(items, seen) ==
    IF Len(items) = 0 THEN <<>>
    ELSE IF Head(items).bucket \in seen THEN BucketOrder(Tail(items), seen)
    ELSE <<Head(items).bucket>> \o BucketOrder(Tail(items), seen \cup {Head(items).bucket})
TimelineCounter(items) ==
    [k \in DOMAIN BucketOrder(items, {}) |->
        [bucket |-> BucketOrder(items, {})[k],
         count |-> Cardinality({i \in DOMAIN items : items[i].bucket = BucketOrder(items, {})[k]})]]
    \o <<>>

\* Line 370: the least count of a burst, max(4, int(len(posts) * 0.1)).
BurstThreshold(total) == IF total \div 10 > 4 THEN total \div 10 ELSE 4

\* Lines 364-372: the buckets by time with their counts and burst marks.
TimelineBursts(timeline, total) ==
    LET byTime == SortedDescending(timeline, LAMBDA b : [i \in DOMAIN b.bucket |-> -b.bucket[i]])
    IN  [k \in DOMAIN byTime |->
            [timestamp |-> byTime[k].bucket,
             count |-> byTime[k].count,
             burst |-> byTime[k].count >= BurstThreshold(total)]]

\* Lines 374-385: for every keyword and each of the 6 busiest buckets, the
\* number of posts of the bucket containing the keyword.
KeywordHeatmap(timeline, items) ==
    LET busiest == SortedDescending(timeline, LAMBDA b : <<b.count>>)
        top == SubSeq(busiest, 1, IF Len(busiest) < 6 THEN Len(busiest) ELSE 6)
    IN  [n \in 1..(Len(COORDINATED_KEYWORDS) * Len(top)) |->
            LET k == ((n - 1) \div Len(top)) + 1
                b == top[((n - 1) % Len(top)) + 1].bucket
            IN  [keyword |-> COORDINATED_KEYWORDS[k],
                 bucket |-> b,
                 intensity |-> Cardinality({i \in DOMAIN items :
                                   items[i].bucket = b /\ k \in items[i].keywords})]]

\* Lines 387-390: the mean botProbability of the first 6 accounts.
OverallGauge(accounts) ==
    LET top == SubSeq(accounts, 1, IF Len(accounts) < 6 THEN Len(accounts) ELSE 6)
    IN  RoundHalfEven(SumSeq([i \in DOMAIN top |-> top[i].botProbability]),
                      IF Len(top) < 1 THEN 1 ELSE Len(top))

\* Lines 193-215: the result when there is no post.
EmptyDetection(topic) ==
    [topic |-> topic, datasetSize |-> 0, botProbabilityGauge |-> 0,
     riskDistribution |-> RiskDistribution(<<>>),
     timelineBursts |-> <<>>, keywordHeatmap |-> <<>>, suspiciousPosts |-> <<>>,
     accounts |-> <<>>, posts |-> <<>>, suspicious_posts |-> <<>>, empty |-> TRUE]

\* Lines 354-410: the result from what the loops gathered.  Next to the
\* fields returned it keeps, as history, the posts analysed (in the order
\* processed) and suspicious_posts as it was before line 355.
Detection(topic, items, looped, timeline) ==
    [topic |-> topic,
     datasetSize |-> Len(items),
     botProbabilityGauge |->
         OverallGauge(SortedDescending(looped.account_results, LAMBDA a : <<a.botProbability>>)),
     riskDistribution |-> RiskDistribution(looped.account_results),
     timelineBursts |-> TimelineBursts(timeline, Len(items)),
     keywordHeatmap |-> KeywordHeatmap(timeline, items),
     suspiciousPosts |-> CapSuspicious(looped.suspicious_posts),
     accounts |-> SortedDescending(looped.account_results, LAMBDA a : <<a.botProbability>>),
     posts |-> [i \in DOMAIN items |-> items[i].post],
     suspicious_posts |-> looped.suspicious_posts,
     empty |-> FALSE]

\* Lines 217-410 for the posts with what is derived from them.
Detect(topic, items, now) ==
    Detection(topic, items,
              AccountLoop(AccountOrder(items, {}), items, EngagementStats(items), now),
              TimelineCounter(items))

\* run_bot_detection with the clock readings base_now (_news_to_posts),
\* base_time (generate_synthetic_coordinated_posts) and now (line 278), the
\* generator being in `state` once seeded.
RunBotDetection(news_records, topic, clock, state) ==
    LET Run(posts) ==
            IF Len(posts) = 0 THEN EmptyDetection(topic)
            ELSE Detect(topic, DerivedAll(posts), clock.now)
    IN  Run(GenerateSyntheticCoordinatedPosts(NewsToPosts(news_records, clock.base_now),
                                              topic, clock.base_time, state))

\* ---------------------------------------------------------------------
\* GET /bot-detection (main.py 488-521): the records the news fetch gave,
\* [] when it failed, go to run_bot_detection with the topic.

\* An article as the fetcher's records give it; publishedAt is None when it
\* is missing or does not parse.
NewsItem(title, source, publishedAt) ==
    [title |-> title, description |-> <<>>, content |-> <<>>, source |-> source,
     publishedAt |-> publishedAt]

NewsSingle ==
    << NewsItem(<<"O", "f", "f", "i", "c", "i", "a", "l", "s", " ", "d", "e", "n", "y", " ", "r",
                  "u", "m", "o", "r">>,
                <<>>, None) >>
\* One article dated 200 days after the clock's 36300, with three
\* coordinated keywords.
NewsFuture ==
    << NewsItem(<<"B", "r", "e", "a", "k", "i", "n", "g", " ", "u", "r", "g", "e", "n", "t", " ",
                  "l", "e", "a", "k">>,
                <<>>, <<17316300>>) >>
NewsBurst ==
    << NewsItem(<<"B", "r", "e", "a", "k", "i", "n", "g", " ", "u", "r", "g", "e", "n", "t", " ",
                  "c", "l", "a", "i", "m", "s", " ", "e", "x", "p", "o", "s", "e", "d">>,
                <<"D", "a", "i", "l", "y", " ", "N", "e", "w", "s">>, <<6000>>),
       NewsItem(<<"C", "o", "u", "n", "c", "i", "l", " ", "m", "e", "e", "t", "s", " ", "o", "n",
                  " ", "b", "u", "d", "g", "e", "t">>,
                <<"W", "i", "r", "e">>, <<6060>>),
       NewsItem(<<"R", "a", "i", "n", " ", "e", "x", "p", "e", "c", "t", "e", "d", " ", "t", "h",
                  "i", "s", " ", "w", "e", "e", "k", "e", "n", "d">>,
                <<"W", "i", "r", "e">>, <<6120>>),
       NewsItem(<<"T", "e", "a", "m", " ", "w", "i", "n", "s", " ", "t", "h", "e", " ", "f", "i",
                  "n", "a", "l">>,
                <<"W", "i", "r", "e">>, <<6180>>),
       NewsItem(<<>>,
                <<>>, None) >>
NewsEdges ==
    << NewsItem(<<"o", "n", "e", " ", "t", "w", "o", " ", "t", "h", "r", "e", "e", " ", "f", "o",
                  "u", "r">>,
                <<"a", "l", "p", "h", "a">>, <<100000>>),
       NewsItem(<<"c", "h", "a", "o", "s", " ", "n", "o", "r", "t", "h", " ", "s", "o", "u", "t",
                  "h", " ", "e", "a", "s", "t", " ", "w", "e", "s", "t", " ", "u", "p">>,
                <<"b", "e", "t", "a">>, <<100000>>),
       NewsItem(<<"M", "a", "r", "k", "e", "t", "s", " ", "c", "a", "l", "m">>,
                <<"W", "i", "r", "e">>, None),
       NewsItem(<<"H", "a", "r", "v", "e", "s", "t", " ", "b", "e", "g", "i", "n", "s">>,
                <<"W", "i", "r", "e">>, None),
       NewsItem(<<"o", "n", "e", " ", "t", "w", "o", " ", "f", "i", "v", "e", " ", "s", "i", "x",
                  " ", "s", "e", "v", "e", "n">>,
                <<"a", "l", "p", "h", "a">>, <<100300>>),
       NewsItem(<<"c", "h", "a", "o", "s", " ", "n", "o", "r", "t", "h", " ", "s", "o", "u", "t",
                  "h", " ", "e", "a", "s", "t", " ", "w", "e", "s", "t", " ", "d", "o", "w", "n">>,
                <<"b", "e", "t", "a">>, <<100300>>) >>
NewsTwelve ==
    << NewsItem(<<"c", "h", "a", "o", "s", " ", "c", "r", "i", "s", "i", "s", " ", "r", "e", "p",
                  "o", "r", "t", " ", "t", "o", "d", "a", "y">>,
                <<"g", "a", "m", "m", "a">>, <<0>>),
       NewsItem(<<"u", "r", "g", "e", "n", "t", " ", "b", "r", "e", "a", "k", "i", "n", "g", " ",
                  "u", "p", "d", "a", "t", "e">>,
                <<"d", "e", "l", "t", "a">>, None),
       NewsItem(<<"c", "i", "t", "y", " ", "c", "o", "u", "n", "c", "i", "l", " ", "m", "e", "e",
                  "t", "s">>,
                <<"d", "e", "l", "t", "a">>, None),
       NewsItem(<<"F", "i", "l", "l", "e", "r", " ", "s", "t", "o", "r", "y", " ", "n", "u", "m",
                  "b", "e", "r", " ", "d">>,
                <<"f", "i", "l", "l", "e", "r", " ", "d">>, None),
       NewsItem(<<"w", "e", "a", "t", "h", "e", "r", " ", "r", "e", "p", "o", "r", "t", " ", "t",
                  "o", "d", "a", "y">>,
                <<"g", "a", "m", "m", "a">>, <<500000>>),
       NewsItem(<<"F", "i", "l", "l", "e", "r", " ", "s", "t", "o", "r", "y", " ", "n", "u", "m",
                  "b", "e", "r", " ", "f">>,
                <<"f", "i", "l", "l", "e", "r", " ", "f">>, None),
       NewsItem(<<"F", "i", "l", "l", "e", "r", " ", "s", "t", "o", "r", "y", " ", "n", "u", "m",
                  "b", "e", "r", " ", "g">>,
                <<"f", "i", "l", "l", "e", "r", " ", "g">>, None),
       NewsItem(<<"F", "i", "l", "l", "e", "r", " ", "s", "t", "o", "r", "y", " ", "n", "u", "m",
                  "b", "e", "r", " ", "h">>,
                <<"f", "i", "l", "l", "e", "r", " ", "h">>, None),
       NewsItem(<<"s", "p", "o", "r", "t", "s", " ", "r", "e", "p", "o", "r", "t", " ", "t", "o",
                  "d", "a", "y">>,
                <<"g", "a", "m", "m", "a">>, <<1000000>>),
       NewsItem(<<"F", "i", "l", "l", "e", "r", " ", "s", "t", "o", "r", "y", " ", "n", "u", "m",
                  "b", "e", "r", " ", "j">>,
                <<"f", "i", "l", "l", "e", "r", " ", "j">>, None),
       NewsItem(<<"F", "i", "l", "l", "e", "r", " ", "s", "t", "o", "r", "y", " ", "n", "u", "m",
                  "b", "e", "r", " ", "k">>,
                <<"f", "i", "l", "l", "e", "r", " ", "k">>, None),
       NewsItem(<<"F", "i", "l", "l", "e", "r", " ", "s", "t", "o", "r", "y", " ", "n", "u", "m",
                  "b", "e", "r", " ", "l">>,
                <<"f", "i", "l", "l", "e", "r", " ", "l">>, None) >>
NewsThirteen ==
    NewsTwelve \o << NewsItem(<<"L", "e", "f", "t", " ", "o", "u", "t">>,
                <<"o", "m", "i", "t", "t", "e", "d">>, None) >>

GeneralMisinformation ==
    <<"G", "e", "n", "e", "r", "a", "l", " ", "M", "i", "s", "i", "n", "f", "o", "r",
      "m", "a", "t", "i", "o", "n">>
CrisisPanic == <<"C", "r", "i", "s", "i", "s", " ", "P", "a", "n", "i", "c">>

\* Readings of the clock during one call, in order: base_now, base_time, now.
Clocks ==
    {[base_now |-> 36300, base_time |-> 36300, now |-> 36300],
     [base_now |-> 1000000, base_time |-> 1000001, now |-> 1000003]}

\* The calls: the fetch fails or finds nothing, for either topic at either
\* time; or it finds articles for the default topic.
BotCalls ==
    {[news_records |-> <<>>, topic |-> t, clock |-> c] :
        t \in {GeneralMisinformation, CrisisPanic}, c \in Clocks}
    \cup {[news_records |-> n, topic |-> GeneralMisinformation, clock |-> c] :
            n \in {NewsSingle, NewsFuture, NewsBurst, NewsEdges, NewsTwelve, NewsThirteen},
            c \in {k \in Clocks : k.now = 36300}}
    \cup {[news_records |-> NewsBurst, topic |-> CrisisPanic, clock |-> c] :
            c \in {k \in Clocks : k.now # 36300}}

\* What run_bot_detection returns for each call and each state of the
\* generator after line 130.
DetectionOutcomes ==
    {<<c, s, RunBotDetection(c.news_records, c.topic, c.clock, s)>> :
        c \in BotCalls, s \in {Seed42(k) : k \in DOMAIN MersenneTwister}}
DetectionOf(c, s) == (CHOOSE o \in DetectionOutcomes : o[1] = c /\ o[2] = s)[3]

\* The process starts with its generator in any state and no call made.
InitBot ==
    /\ SvcIdle
    /\ ANALYZER = None
    /\ built = 0
    /\ rng \in DOMAIN MersenneTwister
    /\ call = <<>>
    /\ df = <<>>
    /\ prev = <<>>
    /\ StoresEmpty
    /\ at = "bot_detection"

\* One request: the handler runs run_bot_detection to its end.  `prev`
\* keeps the call before this one with what it returned.
BotDetection ==
    /\ at = "bot_detection"
    /\ \E c \in BotCalls :
          /\ call' = <<c>>
          /\ df' = <<DetectionOf(c, Seed42(rng))>>
    /\ rng' = Drawn(Seed42(rng))
    /\ prev' = IF call = <<>> THEN <<>> ELSE <<[call |-> call[1], detection |-> df[1]]>>
    /\ UNCHANGED <<at, svcVars, ANALYZER, built, storeVars>>

NextBot == BotDetection
SpecBot == InitBot /\ [][NextBot]_vars

\* The part of a result that names its accounts: account, postCount,
\* botProbability and classification, in the order returned.
AccountView(detection) ==
    [i \in DOMAIN detection.accounts |->
        [account |-> detection.accounts[i].account,
         postCount |-> detection.accounts[i].postCount,
         botProbability |-> detection.accounts[i].botProbability,
         classification |-> detection.accounts[i].classification]]
\* Two calls in a row, both without news and for the same topic.
SequentialSyntheticRuns ==
    /\ prev # <<>>
    /\ call # <<>>
    /\ prev[1].call.news_records = <<>>
    /\ call[1].news_records = <<>>
    /\ prev[1].call.topic = call[1].topic

\* C12: when the news list is empty, two calls in a row for the same topic
\* return the same accounts with the same postCount, botProbability and
\* classification, whatever the clock read during either call.
C12_SeededRunsAgree ==
    SequentialSyntheticRuns => AccountView(df[1]) = AccountView(prev[1].detection)
\* Two such calls made at different times, the second with the generator
\* left where the first call's draws put it.
C12_Witness ==
    /\ SequentialSyntheticRuns
    /\ prev[1].call.clock # call[1].clock
    /\ Len(df[1].accounts) = 5
    /\ df[1].accounts[1].botProbability = 4855
    /\ df[1].timelineBursts # prev[1].detection.timelineBursts

\* The instant a postedAt text stands for, in seconds.
Instant(iso) == iso[1] * 86400 + iso[2] * 3600 + iso[3] * 60 + iso[4]
\* How often the post is in the list.
Occurrences(posts, p) == Cardinality({i \in DOMAIN posts : posts[i] = p})
\* The call made last has returned this.
Detected == IF df = <<>> THEN EmptyDetection(<<>>) ELSE df[1]

\* C13: suspiciousPosts has at most 18 entries, in order of posted time
\* from the latest on, and they are the latest of the posts selected: each
\* is one of them, and every selected post later than the last entry is
\* among the entries.
C13_LatestEighteen ==
    LET kept == Detected.suspiciousPosts
        selected == Detected.suspicious_posts
    IN  /\ Len(kept) = (IF Len(selected) < 18 THEN Len(selected) ELSE 18)
        /\ \A i \in DOMAIN kept : \A j \in DOMAIN kept :
              i < j => Instant(kept[i].postedAt) >= Instant(kept[j].postedAt)
        /\ \A i \in DOMAIN kept :
              Occurrences(kept, kept[i]) <= Occurrences(selected, kept[i])
        /\ \A i \in DOMAIN selected :
              Instant(selected[i].postedAt) > Instant(kept[Len(kept)].postedAt)
                  => Occurrences(kept, selected[i]) = Occurrences(selected, selected[i])
\* More than 18 posts were selected, some of them at other hours and days
\* than the entries kept, and an older one was left out.
C13_Witness ==
    /\ Len(Detected.suspicious_posts) > 18
    /\ Len(Detected.suspiciousPosts) = 18
    /\ \E i \in DOMAIN Detected.suspiciousPosts :
          Detected.suspiciousPosts[i].postedAt[1] # Detected.suspiciousPosts[18].postedAt[1]
    /\ \E i \in DOMAIN Detected.suspicious_posts :
          /\ Occurrences(Detected.suspiciousPosts, Detected.suspicious_posts[i]) = 0
          /\ Instant(Detected.suspicious_posts[i].postedAt)
                < Instant(Detected.suspiciousPosts[18].postedAt)

\* C14: every account of the result has a postCount of at least 1 and the
\* postCounts add up to the number of posts analysed; an account with one
\* post has text similarity 0 and the frequency of one post in one minute,
\* (1 / 1.0) * 30 / 6 cut to 1.
C14_PostCounts ==
    /\ \A i \in DOMAIN Detected.accounts : Detected.accounts[i].postCount >= 1
    /\ SumSeq([i \in DOMAIN Detected.accounts |-> Detected.accounts[i].postCount])
          = Len(Detected.posts)
    /\ Len(Detected.posts) = Detected.datasetSize
    /\ \A i \in DOMAIN Detected.accounts :
          Detected.accounts[i].postCount = 1 =>
              /\ Detected.accounts[i].scores.text_similarity = 0
              /\ Detected.accounts[i].signals.textSimilarity = 0
              /\ Detected.accounts[i].scores.frequency
                    = Normalize(Millionths(1 * 30 * 60, 6 * 60), 0, 1000000)
\* 41 posts of ten accounts, five of them with a single post.
C14_Witness ==
    /\ Detected.datasetSize = 41
    /\ Len(Detected.accounts) = 10
    /\ Cardinality({i \in DOMAIN Detected.accounts : Detected.accounts[i].postCount = 1}) = 5
    /\ \E i \in DOMAIN Detected.accounts : Detected.accounts[i].postCount = 12

\* ---------------------------------------------------------------------
\* apply_sentiment_analysis called from the request threads: the steps of
\* _get_sentiment_analyzer (intelligence.py 41-49) of one thread interleave
\* with those of the others; nothing in it holds a lock.

\* The locals of a call: the analyzer the try block constructed and the one
\* _get_sentiment_analyzer returned.
NoAnalyzer == [made |-> None, analyzer |-> None]

InitAnalyzer ==
    /\ result = None
    /\ heap = <<>>
    /\ allocated = 0
    /\ pc = [t \in Threads |-> "idle"]
    /\ req = [t \in Threads |-> NoRequest]
    /\ local = [t \in Threads |-> NoAnalyzer]
    /\ resp = NoResponse
    /\ served = 0
    /\ lastOk = None
    /\ FnIdle

\* Line 53: the call of _get_sentiment_analyzer.
SentimentEnter(t) ==
    /\ pc[t] = "idle"
    /\ pc' = [pc EXCEPT ![t] = "line43"]
    /\ local' = [local EXCEPT ![t] = NoAnalyzer]
    /\ UNCHANGED <<ANALYZER, built>>
\* Line 43: if _ANALYZER is None.
SentimentTest(t) ==
    /\ pc[t] = "line43"
    /\ pc' = [pc EXCEPT ![t] = IF ANALYZER = None THEN "line45" ELSE "line49"]
    /\ UNCHANGED <<local, ANALYZER, built>>
\* Lines 44-48, the right-hand side: SentimentIntensityAnalyzer() gives a
\* new instance, after the download of the lexicon when it was missing.
SentimentConstruct(t) ==
    /\ pc[t] = "line45"
    /\ built' = built + 1
    /\ local' = [local EXCEPT ![t].made = <<built + 1>>]
    /\ pc' = [pc EXCEPT ![t] = "store"]
    /\ UNCHANGED ANALYZER
\* Lines 45 and 48, the assignment to the global.
SentimentStore(t) ==
    /\ pc[t] = "store"
    /\ ANALYZER' = local[t].made
    /\ pc' = [pc EXCEPT ![t] = "line49"]
    /\ UNCHANGED <<local, built>>
\* Line 49: return _ANALYZER, which line 53 binds to `analyzer`.
SentimentReturn(t) ==
    /\ pc[t] = "line49"
    /\ local' = [local EXCEPT ![t].analyzer = ANALYZER]
    /\ pc' = [pc EXCEPT ![t] = "line54"]
    /\ UNCHANGED <<ANALYZER, built>>
\* Lines 54-60: the texts are scored with `analyzer`.
SentimentMap(t) ==
    /\ pc[t] = "line54"
    /\ pc' = [pc EXCEPT ![t] = "idle"]
    /\ UNCHANGED <<local, ANALYZER, built>>

SentimentStep(t) ==
    /\ \/ SentimentEnter(t)
       \/ SentimentTest(t)
       \/ SentimentConstruct(t)
       \/ SentimentStore(t)
       \/ SentimentReturn(t)
       \/ SentimentMap(t)
    /\ UNCHANGED <<result, heap, allocated, req, resp, served, lastOk, call, df, at, rng, prev,
                   storeVars>>
NextAnalyzer == \E t \in Threads : SentimentStep(t)
SpecAnalyzer == InitAnalyzer /\ [][NextAnalyzer]_vars

\* C15: however the calls of apply_sentiment_analysis overlap, one analyzer
\* is constructed in all, by the first caller, and every call works with
\* that instance.
C15_AnalyzerBuiltOnce ==
    /\ built <= 1
    /\ \A t \in Threads : local[t].analyzer \in {None, <<1>>}

\* A call of apply_narrative_repetition on at least 2 rows that built its
\* NearestNeighbors search.
NeighborsSearched ==
    /\ at = "narrative"
    /\ Len(call.df.rows) >= 2
    /\ call.n_neighbors >= 1
    /\ df.error = ""

\* C16 as stated: on a corpus of n >= 2 rows with n_neighbors = c >= 1 the
\* search is for exactly min(c, n) neighbours per row.
C16_SearchesMinOfBoth ==
    NeighborsSearched =>
        df.neighbor_count = (IF call.n_neighbors < Len(call.df.rows) THEN call.n_neighbors
                             ELSE Len(call.df.rows))
\* C16 amended: the search is for max(2, min(c, n)) neighbours per row,
\* which is min(c, n) whenever c >= 2.
C16_SearchesAtLeastTwo ==
    NeighborsSearched =>
        /\ df.neighbor_count >= 2
        /\ df.neighbor_count <= Len(call.df.rows)
        /\ call.n_neighbors >= 2 =>
              df.neighbor_count = (IF call.n_neighbors < Len(call.df.rows)
                                   THEN call.n_neighbors ELSE Len(call.df.rows))
        /\ call.n_neighbors < 2 => df.neighbor_count = 2
\* A call with n_neighbors = 1 on a corpus of 3 rows, which searched 2
\* neighbours per row.
C16_Witness ==
    /\ NeighborsSearched
    /\ call.n_neighbors = 1
    /\ Len(call.df.rows) = 3
    /\ df.neighbor_count = 2

\* C17: a bucket of the timeline is marked burst exactly when its count is
\* at least max(4, 0.1 * total), total being the number of posts analysed
\* (count >= 4 and 10 * count >= total), and the counts of the buckets add
\* up to total.
C17_BurstAtTenPercent ==
    /\ \A k \in DOMAIN Detected.timelineBursts :
          Detected.timelineBursts[k].burst
              <=> /\ Detected.timelineBursts[k].count >= 4
                  /\ 10 * Detected.timelineBursts[k].count >= Detected.datasetSize
    /\ SumSeq([k \in DOMAIN Detected.timelineBursts |-> Detected.timelineBursts[k].count])
          = Detected.datasetSize

\* The news posts among those analysed, by their index in news_records.
NewsIndices(posts) == {posts[i].post_id.index : i \in {j \in DOMAIN posts : posts[j].source = "news"}}

\* C18: for n news items, 36 synthetic posts and the first min(12, n) news
\* posts are analysed (datasetSize = 36 + min(12, n)), in order of posted_at
\* from the earliest on; so there always are posts, and the result for no
\* posts is never returned.
C18_ThirtySixPlusSeeds ==
    call # <<>> =>
        LET n == Len(call[1].news_records)
            posts == Detected.posts
        IN  /\ Detected.datasetSize = 36 + (IF n < 12 THEN n ELSE 12)
            /\ Len(posts) = Detected.datasetSize
            /\ Cardinality({i \in DOMAIN posts : posts[i].source = "synthetic-demo"}) = 36
            /\ Cardinality({i \in DOMAIN posts : posts[i].source = "news"})
                  = (IF n < 12 THEN n ELSE 12)
            /\ NewsIndices(posts) = 0..((IF n < 12 THEN n ELSE 12) - 1)
            /\ \A i \in DOMAIN posts : \A j \in DOMAIN posts :
                  i < j => posts[i].posted_at <= posts[j].posted_at
            /\ ~Detected.empty
            /\ Detected.accounts # <<>>
\* 13 news items were given: 48 posts were analysed, the 13th item not
\* among them, and news posts stand before and after synthetic ones.
C18_Witness ==
    /\ call # <<>>
    /\ Len(call[1].news_records) = 13
    /\ Detected.datasetSize = 48
    /\ 12 \notin NewsIndices(Detected.posts)
    /\ Detected.posts[1].source = "news"
    /\ Detected.posts[48].source = "news"
    /\ \E i \in DOMAIN Detected.posts : Detected.posts[i].source = "synthetic-demo"

\* 0.32 * frequency + 0.28 * text_similarity + 0.22 * engagement_spike
\* + 0.18 * sentiment_cluster of an account, cut to [0, 1], in 1e-8.
WeightedScore(scores) ==
    Normalize(32 * scores.frequency + 28 * scores.text_similarity
              + 22 * scores.engagement_spike + 18 * scores.sentiment_cluster, 0, 100000000)
\* How many accounts the result gives the class.
Classified(detection, class) ==
    Cardinality({i \in DOMAIN detection.accounts :
                    detection.accounts[i].classification = class})

\* C19: botProbability is the weighted score times 100 rounded to two
\* places (the nearest hundredth of a percent) and lies in [0, 100]; the
\* classification is High Bot Probability iff botProbability >= 70, Medium
\* Bot Suspicion iff 40 <= botProbability < 70, Low Bot Risk iff it is
\* below 40; the counts of riskDistribution are those of the classes and
\* add up to the number of accounts.
C19_ProbabilityAndClass ==
    /\ \A i \in DOMAIN Detected.accounts :
          LET a == Detected.accounts[i]
          IN  /\ a.botProbability \in 0..10000
              /\ 10000 * a.botProbability - WeightedScore(a.scores) \in -5000..5000
              /\ a.classification = "High Bot Probability" <=> a.botProbability >= 7000
              /\ a.classification = "Medium Bot Suspicion"
                    <=> (a.botProbability >= 4000 /\ a.botProbability < 7000)
              /\ a.classification = "Low Bot Risk" <=> a.botProbability < 4000
    /\ \A k \in DOMAIN Detected.riskDistribution :
          Detected.riskDistribution[k].count
              = Classified(Detected, Detected.riskDistribution[k].category)
    /\ SumSeq([k \in DOMAIN Detected.riskDistribution |-> Detected.riskDistribution[k].count])
          = Len(Detected.accounts)
\* A result with an account at exactly 40.00 (Medium), one at exactly 70.00
\* (High) and accounts below 40 (Low).
C19_Witness ==
    /\ \E i \in DOMAIN Detected.accounts :
          /\ Detected.accounts[i].botProbability = 4000
          /\ Detected.accounts[i].classification = "Medium Bot Suspicion"
    /\ \E i \in DOMAIN Detected.accounts :
          /\ Detected.accounts[i].botProbability = 7000
          /\ Detected.accounts[i].classification = "High Bot Probability"
    /\ Classified(Detected, "Low Bot Risk") = 3
    /\ Len(Detected.accounts) = 9

\* The classification the result gives the account.
ClassOf(detection, account) ==
    (CHOOSE a \in {detection.accounts[i] : i \in DOMAIN detection.accounts} :
        a.account = account).classification
\* The conditions of a post on its own: its negative-word ratio is at least
\* 0.12, it contains at least 2 coordinated keywords, its engagement is
\* above the mean plus the standard deviation of the posts analysed.
NegativePost(item) ==
    /\ Len(item.tokens) > 0
    /\ 100 * Len(SelectSeq(item.tokens, LAMBDA w : w \in NEGATIVE_WORDS)) >= 12 * Len(item.tokens)
KeywordPost(item) == Cardinality(item.keywords) >= 2
OutlierPost(item, stats) == EngagementOutlier(item.engagement, stats)
\* The posts analysed with what is derived from them, whether their account
\* is not Low Bot Risk, and whether suspicious_posts held them before the cut.
Examined(detection) ==
    LET Rows(items, stats) ==
            [i \in DOMAIN items |->
                [risky |-> ClassOf(detection, items[i].account) # "Low Bot Risk",
                 negative |-> NegativePost(items[i]),
                 keyword |-> KeywordPost(items[i]),
                 outlier |-> OutlierPost(items[i], stats),
                 selected |-> Len(SelectSeq(detection.suspicious_posts,
                                            LAMBDA p : p.postId = items[i].post.post_id)),
                 returned |-> Len(SelectSeq(detection.suspiciousPosts,
                                            LAMBDA p : p.postId = items[i].post.post_id))]] \o <<>>
        Of(items) == Rows(items, EngagementStats(items))
    IN  IF detection.empty THEN <<>> ELSE Of(DerivedAll(detection.posts))

\* C20: before the cut to 18, a post is in suspicious_posts (once) iff its
\* account is not Low Bot Risk, or its negative-word ratio is >= 0.12, or
\* it contains at least 2 coordinated keywords, or its engagement exceeds
\* the mean plus the standard deviation; every post of a Medium or High
\* account is selected, suspicious_posts holds nothing else, and no post
\* failing all four is in suspiciousPosts.
C20_SelectedIffAnyCondition ==
    LET Holds(rows) ==
            /\ \A i \in DOMAIN rows :
                  /\ rows[i].selected = IF rows[i].risky \/ rows[i].negative
                                            \/ rows[i].keyword \/ rows[i].outlier
                                         THEN 1 ELSE 0
                  /\ rows[i].risky => rows[i].selected = 1
                  /\ rows[i].returned <= rows[i].selected
            /\ SumSeq([i \in DOMAIN rows |-> rows[i].selected]) = Len(Detected.suspicious_posts)
            /\ SumSeq([i \in DOMAIN rows |-> rows[i].returned]) = Len(Detected.suspiciousPosts)
    IN  Holds(Examined(Detected))
\* A result where posts of Low Bot Risk accounts are selected by each of the
\* three conditions alone, one of a Low Bot Risk account is not selected,
\* one failing the three is selected for its account, and the cut drops some.
C20_Witness ==
    LET Shows(rows) ==
            /\ \E i \in DOMAIN rows :
                  /\ ~rows[i].risky /\ rows[i].negative /\ ~rows[i].keyword /\ ~rows[i].outlier
                  /\ rows[i].selected = 1
            /\ \E i \in DOMAIN rows :
                  /\ ~rows[i].risky /\ ~rows[i].negative /\ rows[i].keyword /\ ~rows[i].outlier
                  /\ rows[i].selected = 1
            /\ \E i \in DOMAIN rows :
                  /\ ~rows[i].risky /\ ~rows[i].negative /\ ~rows[i].keyword /\ rows[i].outlier
                  /\ rows[i].selected = 1
            /\ \E i \in DOMAIN rows :
                  /\ ~rows[i].risky /\ ~rows[i].negative /\ ~rows[i].keyword /\ ~rows[i].outlier
                  /\ rows[i].selected = 0
            /\ \E i \in DOMAIN rows :
                  /\ rows[i].risky /\ ~rows[i].negative /\ ~rows[i].keyword /\ ~rows[i].outlier
                  /\ rows[i].selected = 1
            /\ Len(Detected.suspicious_posts) > SuspiciousCap
    IN  Shows(Examined(Detected))

\* The accounts of the call before this one and of this one.
BothRuns ==
    IF prev = <<>> \/ df = <<>> THEN {}
    ELSE {[run |-> 1, entry |-> prev[1].detection.accounts[i]] :
              i \in DOMAIN prev[1].detection.accounts}
         \cup {[run |-> 2, entry |-> df[1].accounts[i]] : i \in DOMAIN df[1].accounts}

\* C21: botProbability and classification of an account depend only on its
\* frequency, text_similarity, engagement_spike and sentiment_cluster
\* scores: accounts of two runs with the same four scores have the same
\* botProbability and classification, whatever their duplicate_usernames,
\* new_account and keyword_burst signals are.
C21_FourScoresDecide ==
    \A a, b \in BothRuns :
        a.entry.scores = b.entry.scores
            => /\ a.entry.botProbability = b.entry.botProbability
               /\ a.entry.classification = b.entry.classification
\* Two runs in which the same account has the same four scores, is a new
\* account in one and not in the other, and has another keyword_burst.
C21_Witness ==
    \E a, b \in BothRuns :
        /\ a.run = 1 /\ b.run = 2
        /\ a.entry.account = b.entry.account
        /\ a.entry.scores = b.entry.scores
        /\ a.entry.signals.newAccount = 0
        /\ b.entry.signals.newAccount = 10000
        /\ a.entry.signals.keywordBurst # b.entry.signals.keywordBurst
        /\ a.entry.signals.duplicateUsernames = b.entry.signals.duplicateUsernames

\* The rows of the frame given whose date parsed, and the days they fall on.
ValidDated ==
    IF "date" \in call.df.columns
    THEN {i \in DOMAIN call.df.rows : call.df.rows[i].date.valid}
    ELSE {}
DaysDated == {call.df.rows[i].date.day : i \in ValidDated}

\* C22: detect_temporal_trends returns one bucket per calendar day that has
\* a record with a parsable date and no other, in strictly increasing day
\* order; a bucket's article_count is the number of such records of its day,
\* so the counts sum to the number of valid-dated records; the list is
\* empty when there is no date column or no record has a valid date.
C22_OneBucketPerDay ==
    at = "trends" =>
        /\ {df[k].date : k \in DOMAIN df} = DaysDated
        /\ Len(df) = Cardinality(DaysDated)
        /\ \A k \in DOMAIN df :
              /\ k > 1 => df[k - 1].date < df[k].date
              /\ df[k].article_count
                    = Cardinality({i \in ValidDated : call.df.rows[i].date.day = df[k].date})
              /\ df[k].article_count >= 1
        /\ SumSeq([k \in DOMAIN df |-> df[k].article_count]) = Cardinality(ValidDated)
        /\ ("date" \notin call.df.columns \/ ValidDated = {}) => df = <<>>
\* A frame listing the latest day first, with a record whose date did not
\* parse, several records on one day and days without records in between,
\* has given buckets for days 1, 2, 5 and 6.
C22_Witness ==
    /\ at = "trends"
    /\ [k \in DOMAIN df |-> df[k].date] = <<1, 2, 5, 6>>
    /\ call.df.rows[1].date.day = 6
    /\ \E k \in DOMAIN df : df[k].article_count > 1
    /\ Cardinality(ValidDated) = Len(call.df.rows) - 1
    /\ SumSeq([k \in DOMAIN df |-> df[k].article_count]) = Len(call.df.rows) - 1

\* C30: when the valid-dated records fall on at most 3 calendar days,
\* detect_temporal_trends flags no bucket as sentiment_spike or
\* narrative_spike, whatever the values of the days are.
C30_NoSpikeUpToThreeDays ==
    (at = "trends" /\ Cardinality(DaysDated) <= 3) =>
        \A k \in DOMAIN df : ~df[k].sentiment_spike /\ ~df[k].narrative_spike
\* Three days, two with |avg_sentiment| 0.25 and 2 repeated narratives and
\* one with 0.75 and 6 (z-score sqrt(2) for both, the largest three values
\* can give), and none of the three buckets is flagged.
C30_Witness ==
    /\ at = "trends"
    /\ Cardinality(DaysDated) = 3
    /\ Len(df) = 3
    /\ {df[k].repeated_narratives : k \in DOMAIN df} = {2, 6}
    /\ {df[k].avg_sentiment : k \in DOMAIN df} = {-2500, 2500, 7500}
    /\ \A k \in DOMAIN df : ~df[k].sentiment_spike /\ ~df[k].narrative_spike

----------------------------------------------------------------------------
(* Chunked and whole reading of load_kaggle_dataset (SpecIngest)           *)

\* What reading the whole source at once returns for the call.
WholeRead == LoadKaggleDataset(call.src, None)
\* title, text and analysis_text of the records of a frame, in order.
TextColumns(rows) ==
    [i \in DOMAIN rows |->
        [title |-> rows[i].title, text |-> rows[i].text,
         analysis_text |-> rows[i].analysis_text]]

\* C23: with a positive chunk size load_kaggle_dataset returns the same
\* records in the same order as reading the whole source at once.
C23_ChunkedEqualsWhole ==
    (at = "loaded" /\ Chunked(call.chunksize)) =>
        /\ df.error = WholeRead.error
        /\ df.df.rows = WholeRead.df.rows
\* The part of it about the rows kept: the same rows are dropped as empty
\* or as duplicates, so title, text and analysis_text of the records agree.
ChunkedKeepsSameRows ==
    (at = "loaded" /\ Chunked(call.chunksize)) =>
        /\ df.error = WholeRead.error
        /\ TextColumns(df.df.rows) = TextColumns(WholeRead.df.rows)

----------------------------------------------------------------------------
(* GET /bot-detection from two request threads (main.py 488-521)           *)
(*                                                                         *)
(* The handler is a plain def, which the server runs in a thread pool; the *)
(* calls of run_bot_detection share the generator of the `random` module.  *)
(* Here rng is the generator's state as the halves of the loop of lines    *)
(* 151-181 (indices 0-17 and 18-35) drawn since random.seed(42) was last   *)
(* called, in order; a thread is preempted between the halves.             *)

\* Indices drawn without the other thread running.
HalfLoop == SyntheticSize \div 2

\* What random.randint returns for the indices of a half of the loop when
\* the generator is in the state `history`, for the states two overlapping
\* calls can bring it to, rows as in MersenneTwister.
RaceStream ==
    << [history |-> <<>>, part |-> 1,
        rows |-> <<
               <<14, 0, 0, 950, 510, 430>>,
               <<15, 2, 7, 234, 115, 96>>,
               <<14, 4, 2, 336, 88, 77>>,
               <<5, 1, 7, 378, 234, 76>>,
               <<12, 1, 17, 334, 136, 184>>,
               <<13, 2, 0, 201, 258, 178>>,
               <<9, 2, 4, 230, 166, 96>>,
               <<5, 3, 3, 950, 510, 430>>,
               <<9, 2, 8, 142, 197, 207>>,
               <<5, 3, 2, 402, 155, 230>>,
               <<13, 2, 18, 218, 260, 87>>,
               <<4, 1, 9, 160, 139, 95>>,
               <<10, 2, 14, 306, 121, 164>>,
               <<9, 1, 8, 156, 235, 113>>,
               <<12, 1, 5, 950, 510, 430>>,
               <<11, 3, 8, 405, 136, 153>>,
               <<17, 0, 7, 136, 160, 172>>,
               <<8, 0, 6, 410, 160, 124>> >>],
       [history |-> <<>>, part |-> 2,
        rows |-> <<
               <<14, 0, 0, 260, 142, 127>>,
               <<6, 0, 17, 164, 231, 178>>,
               <<4, 0, 2, 231, 139, 199>>,
               <<13, 0, 17, 950, 510, 430>>,
               <<7, 4, 13, 232, 194, 220>>,
               <<8, 0, 5, 336, 167, 141>>,
               <<6, 1, 10, 172, 103, 167>>,
               <<5, 2, 11, 255, 91, 187>>,
               <<12, 0, 12, 160, 221, 145>>,
               <<17, 4, 11, 415, 129, 87>>,
               <<4, 1, 9, 950, 510, 430>>,
               <<5, 1, 3, 314, 151, 186>>,
               <<14, 2, 5, 309, 170, 123>>,
               <<14, 2, 2, 207, 216, 132>>,
               <<6, 3, 12, 258, 243, 212>>,
               <<7, 2, 1, 237, 88, 150>>,
               <<10, 2, 2, 228, 225, 150>>,
               <<7, 3, 12, 950, 510, 430>> >>],
       [history |-> <<1>>, part |-> 1,
        rows |-> <<
               <<14, 3, 12, 950, 510, 430>>,
               <<18, 3, 4, 255, 115, 133>>,
               <<15, 4, 17, 254, 229, 179>>,
               <<18, 4, 12, 305, 136, 105>>,
               <<12, 3, 2, 144, 108, 109>>,
               <<14, 1, 13, 152, 178, 167>>,
               <<13, 3, 16, 248, 221, 72>>,
               <<14, 0, 17, 950, 510, 430>>,
               <<16, 2, 10, 177, 155, 181>>,
               <<6, 3, 0, 254, 208, 115>>,
               <<12, 0, 9, 379, 235, 120>>,
               <<6, 2, 5, 396, 215, 70>>,
               <<13, 2, 15, 129, 108, 162>>,
               <<18, 2, 7, 149, 141, 215>>,
               <<5, 0, 15, 950, 510, 430>>,
               <<17, 0, 17, 184, 112, 191>>,
               <<12, 1, 8, 390, 235, 178>>,
               <<7, 4, 6, 279, 182, 165>> >>],
       [history |-> <<1>>, part |-> 2,
        rows |-> <<
               <<14, 3, 12, 354, 116, 137>>,
               <<6, 1, 17, 395, 147, 219>>,
               <<10, 4, 12, 305, 136, 105>>,
               <<12, 3, 2, 950, 510, 430>>,
               <<16, 0, 3, 198, 240, 110>>,
               <<16, 3, 2, 317, 177, 222>>,
               <<11, 4, 8, 403, 82, 99>>,
               <<14, 4, 8, 294, 108, 145>>,
               <<10, 1, 14, 121, 147, 198>>,
               <<16, 1, 16, 174, 240, 146>>,
               <<17, 4, 6, 950, 510, 430>>,
               <<6, 2, 5, 396, 215, 70>>,
               <<13, 2, 15, 129, 108, 162>>,
               <<18, 2, 7, 149, 141, 215>>,
               <<5, 0, 15, 155, 216, 102>>,
               <<6, 3, 17, 204, 147, 205>>,
               <<17, 4, 13, 228, 218, 121>>,
               <<15, 2, 12, 950, 510, 430>> >>],
       [history |-> <<2>>, part |-> 1,
        rows |-> <<
               <<18, 3, 4, 950, 510, 430>>,
               <<8, 1, 7, 407, 217, 137>>,
               <<15, 4, 13, 418, 182, 162>>,
               <<7, 1, 16, 372, 103, 82>>,
               <<17, 0, 4, 201, 254, 178>>,
               <<13, 0, 12, 315, 232, 189>>,
               <<12, 2, 17, 125, 254, 99>>,
               <<14, 4, 8, 950, 510, 430>>,
               <<16, 2, 3, 270, 191, 110>>,
               <<11, 0, 8, 376, 125, 199>>,
               <<18, 0, 9, 379, 235, 120>>,
               <<6, 2, 5, 396, 215, 70>>,
               <<13, 2, 15, 129, 108, 162>>,
               <<18, 2, 7, 149, 141, 215>>,
               <<5, 0, 15, 950, 510, 430>>,
               <<17, 0, 17, 184, 112, 191>>,
               <<12, 1, 8, 390, 235, 178>>,
               <<7, 4, 6, 279, 182, 165>> >>],
       [history |-> <<1, 1>>, part |-> 2,
        rows |-> <<
               <<11, 4, 14, 181, 143, 127>>,
               <<5, 2, 0, 403, 138, 220>>,
               <<7, 0, 2, 150, 138, 87>>,
               <<18, 0, 10, 950, 510, 430>>,
               <<5, 4, 7, 262, 251, 194>>,
               <<7, 4, 4, 412, 227, 191>>,
               <<7, 3, 13, 217, 104, 94>>,
               <<14, 3, 11, 336, 185, 189>>,
               <<17, 0, 3, 151, 183, 156>>,
               <<16, 0, 7, 218, 128, 207>>,
               <<11, 1, 13, 950, 510, 430>>,
               <<6, 2, 14, 247, 99, 183>>,
               <<16, 4, 3, 145, 246, 208>>,
               <<17, 0, 2, 241, 122, 174>>,
               <<11, 3, 6, 325, 95, 112>>,
               <<10, 0, 12, 255, 196, 143>>,
               <<10, 4, 15, 199, 128, 145>>,
               <<7, 0, 18, 950, 510, 430>> >>],
       [history |-> <<1, 2>>, part |-> 1,
        rows |-> <<
               <<14, 2, 14, 950, 510, 430>>,
               <<18, 4, 14, 181, 143, 127>>,
               <<5, 2, 0, 403, 138, 220>>,
               <<7, 0, 2, 150, 138, 87>>,
               <<18, 0, 10, 156, 211, 130>>,
               <<8, 3, 6, 396, 113, 216>>,
               <<13, 3, 7, 362, 184, 118>>,
               <<5, 0, 13, 950, 510, 430>>,
               <<9, 3, 13, 359, 93, 95>>,
               <<4, 3, 10, 175, 143, 119>>,
               <<7, 4, 14, 191, 188, 116>>,
               <<8, 3, 7, 158, 193, 210>>,
               <<5, 0, 17, 127, 103, 130>>,
               <<6, 3, 15, 366, 134, 172>>,
               <<18, 0, 5, 950, 510, 430>>,
               <<10, 0, 12, 255, 196, 143>>,
               <<10, 4, 15, 199, 128, 145>>,
               <<7, 0, 18, 397, 95, 150>> >>],
       [history |-> <<1, 2>>, part |-> 2,
        rows |-> <<
               <<14, 2, 14, 384, 195, 100>>,
               <<7, 1, 2, 293, 85, 220>>,
               <<12, 1, 18, 232, 81, 88>>,
               <<15, 0, 7, 950, 510, 430>>,
               <<5, 0, 10, 156, 211, 130>>,
               <<8, 3, 6, 396, 113, 216>>,
               <<13, 3, 7, 362, 184, 118>>,
               <<5, 0, 13, 301, 188, 175>>,
               <<11, 0, 3, 151, 183, 156>>,
               <<16, 0, 7, 218, 128, 207>>,
               <<11, 1, 13, 950, 510, 430>>,
               <<6, 2, 14, 247, 99, 183>>,
               <<16, 4, 3, 145, 246, 208>>,
               <<17, 0, 2, 241, 122, 174>>,
               <<11, 3, 6, 325, 95, 112>>,
               <<10, 0, 12, 255, 196, 143>>,
               <<10, 4, 15, 199, 128, 145>>,
               <<7, 0, 18, 950, 510, 430>> >>],
       [history |-> <<2, 1>>, part |-> 2,
        rows |-> <<
               <<11, 4, 14, 181, 143, 127>>,
               <<5, 2, 0, 403, 138, 220>>,
               <<7, 0, 2, 150, 138, 87>>,
               <<18, 0, 10, 950, 510, 430>>,
               <<5, 4, 7, 262, 251, 194>>,
               <<7, 4, 4, 412, 227, 191>>,
               <<7, 3, 13, 217, 104, 94>>,
               <<14, 3, 11, 336, 185, 189>>,
               <<17, 0, 3, 151, 183, 156>>,
               <<16, 0, 7, 218, 128, 207>>,
               <<11, 1, 13, 950, 510, 430>>,
               <<6, 2, 14, 247, 99, 183>>,
               <<16, 4, 3, 145, 246, 208>>,
               <<17, 0, 2, 241, 122, 174>>,
               <<11, 3, 6, 325, 95, 112>>,
               <<10, 0, 12, 255, 196, 143>>,
               <<10, 4, 15, 199, 128, 145>>,
               <<7, 0, 18, 950, 510, 430>> >>],
       [history |-> <<1, 1, 2>>, part |-> 2,
        rows |-> <<
               <<15, 4, 1, 280, 94, 82>>,
               <<13, 3, 16, 391, 120, 84>>,
               <<12, 0, 5, 155, 232, 87>>,
               <<14, 1, 12, 950, 510, 430>>,
               <<5, 4, 7, 416, 232, 80>>,
               <<13, 0, 13, 418, 224, 203>>,
               <<9, 2, 6, 280, 141, 137>>,
               <<10, 1, 9, 354, 160, 88>>,
               <<4, 3, 18, 171, 98, 207>>,
               <<7, 4, 8, 187, 169, 87>>,
               <<18, 1, 11, 950, 510, 430>>,
               <<8, 1, 14, 398, 260, 147>>,
               <<13, 4, 0, 403, 156, 96>>,
               <<18, 1, 8, 179, 107, 211>>,
               <<6, 2, 9, 227, 167, 122>>,
               <<14, 2, 16, 370, 144, 83>>,
               <<5, 3, 8, 142, 80, 155>>,
               <<16, 1, 8, 950, 510, 430>> >>],
       [history |-> <<1, 2, 1>>, part |-> 2,
        rows |-> <<
               <<4, 0, 18, 364, 208, 205>>,
               <<6, 0, 16, 161, 127, 87>>,
               <<13, 0, 7, 326, 110, 215>>,
               <<7, 4, 1, 950, 510, 430>>,
               <<13, 0, 13, 418, 224, 203>>,
               <<9, 2, 6, 280, 141, 137>>,
               <<10, 1, 9, 354, 160, 88>>,
               <<4, 3, 18, 171, 98, 207>>,
               <<7, 4, 8, 187, 169, 87>>,
               <<18, 1, 11, 265, 120, 182>>,
               <<17, 4, 9, 950, 510, 430>>,
               <<13, 4, 0, 403, 156, 96>>,
               <<18, 1, 8, 179, 107, 211>>,
               <<6, 2, 9, 227, 167, 122>>,
               <<14, 2, 16, 370, 144, 83>>,
               <<5, 3, 8, 142, 80, 155>>,
               <<16, 1, 8, 202, 193, 211>>,
               <<15, 3, 17, 950, 510, 430>> >>] >>
RaceRuns ==
    { <<<<>>, <<>>>>,
      <<<<>>, <<1>>>>,
      <<<<>>, <<1, 1>>>>,
      <<<<>>, <<1, 2>>>>,
      <<<<>>, <<1, 1, 2>>>>,
      <<<<1>>, <<1, 1>>>>,
      <<<<2>>, <<2, 1>>>>,
      <<<<1>>, <<1, 1, 2>>>>,
      <<<<1, 2>>, <<1, 2, 1>>>> }

StreamRows(history, part) ==
    (CHOOSE e \in Range(RaceStream) : e.history = history /\ e.part = part).rows

\* The clock during these calls.
RaceClock == [base_now |-> 36300, base_time |-> 36300, now |-> 36300]

\* Lines 183-186 and 217-410 without news posts, for the values drawn.
DetectDrawn(topic, rows) ==
    Detect(topic,
           DerivedAll(SortedByTime([i \in 1..SyntheticSize |->
                                       SyntheticPost(i - 1, topic, RaceClock.base_time, rows[i])])),
           RaceClock.now)
\* What run_bot_detection returns for a topic when the halves of its loop
\* were drawn with the generator in the states of a pair of RaceRuns.
RaceOutcomes ==
    {<<topic, run, DetectDrawn(topic, StreamRows(run[1], 1) \o StreamRows(run[2], 2))>> :
        topic \in {GeneralMisinformation}, run \in RaceRuns}
RaceDetectionOf(topic, run) ==
    (CHOOSE o \in RaceOutcomes : o[1] = topic /\ o[2] = run)[3]

\* The locals of a call: the topic, the generator states at which the halves
\* were drawn, the result.
NoDraws == [topic |-> <<>>, drawn |-> <<>>, detection |-> <<>>]

InitRace ==
    /\ result = None
    /\ heap = <<>>
    /\ allocated = 0
    /\ pc = [t \in Threads |-> "idle"]
    /\ req = [t \in Threads |-> NoRequest]
    /\ local = [t \in Threads |-> NoDraws]
    /\ resp = NoResponse
    /\ served = 0
    /\ lastOk = None
    /\ call = <<>>
    /\ df = <<>>
    /\ at = "unused"
    /\ rng = <<>>
    /\ ANALYZER = None
    /\ built = 0
    /\ prev = <<>>
    /\ StoresEmpty

\* main.py 488-508: a request for the default topic; the fetch of the news
\* fails and records stays [].
RaceFetch(t) ==
    /\ pc[t] = "idle"
    /\ local' = [local EXCEPT ![t] = [NoDraws EXCEPT !.topic = GeneralMisinformation]]
    /\ pc' = [pc EXCEPT ![t] = "line510"]
    /\ UNCHANGED rng
\* Lines 510, 190 and 130: run_bot_detection is called and
\* generate_synthetic_coordinated_posts seeds the shared generator.
RaceSeed(t) ==
    /\ pc[t] = "line510"
    /\ rng' = <<>>
    /\ pc' = [pc EXCEPT ![t] = "loop"]
    /\ UNCHANGED local
\* Lines 151-181 for the next half of the indices: the values come from
\* the generator as it is now, which moves on.
RaceLoop(t) ==
    /\ pc[t] = "loop"
    /\ local' = [local EXCEPT ![t].drawn = Append(@, rng)]
    /\ rng' = Append(rng, Len(local[t].drawn) + 1)
    /\ pc' = [pc EXCEPT ![t] = IF Len(local[t].drawn) + 1 = 2 THEN "line186" ELSE "loop"]
\* Lines 186 and 191-410: the posts sorted, analysed, the result returned.
RaceReturn(t) ==
    /\ pc[t] = "line186"
    /\ local' = [local EXCEPT ![t].detection =
                    RaceDetectionOf(local[t].topic, local[t].drawn)]
    /\ pc' = [pc EXCEPT ![t] = "returned"]
    /\ UNCHANGED rng

RaceStep(t) ==
    /\ \/ RaceFetch(t)
       \/ RaceSeed(t)
       \/ RaceLoop(t)
       \/ RaceReturn(t)
    /\ UNCHANGED <<result, heap, allocated, req, resp, served, lastOk, call, df, at,
                   ANALYZER, built, prev, storeVars>>
NextRace == \E t \in Threads : RaceStep(t)
SpecRace == InitRace /\ [][NextRace]_vars

\* What a call for the topic returns when no other call runs.
Alone(topic) ==
    DetectionOf([news_records |-> <<>>, topic |-> topic, clock |-> RaceClock], Seed42(1))

\* C24: when two calls of run_bot_detection without news and for the same
\* topic overlap, each returns the accounts, postCount, botProbability and
\* classification that a call run alone returns.
C24_OverlapAsAlone ==
    \A t \in Threads :
        (/\ pc[t] = "returned"
         /\ \A u \in Threads : pc[u] # "idle" => local[u].topic = local[t].topic)
            => AccountView(local[t].detection) = AccountView(Alone(local[t].topic))

----------------------------------------------------------------------------
(* services/session_service.py: SessionService, called in sequence         *)
(*                                                                         *)
(* call and resp hold the last call and what it returned; prev is history: *)
(* every token create_session returned with its user (issued), the tokens  *)
(* logged out (revoked), and whether the token of the last call was issued *)
(* and not revoked when the call was made (was_active).                    *)

MaxSessions == 3

\* The users that log in.
SessionUsers ==
    {[user_id |-> "user-1", email |-> "a@x.org", name |-> "ann"],
     [user_id |-> "user-2", email |-> "b@x.org", name |-> "bob"]}
\* The tokens a client may present: those issued and one never issued.
Tokens == 1..(MaxSessions + 1)

\* str(uuid.uuid4()): a token that no earlier call returned.
Uuid4(issued) == Cardinality(DOMAIN issued) + 1
\* self._active_sessions.pop(token, None)
SessionPop_WholeUser(sessions, token) ==
    IF token \notin DOMAIN sessions THEN sessions
    ELSE [k \in {j \in DOMAIN sessions : sessions[j] # sessions[token]} |-> sessions[k]]

SessionPop(sessions, token) == [k \in DOMAIN sessions \ {token} |-> sessions[k]]

NoSessions == [issued |-> <<>>, revoked |-> {}, was_active |-> FALSE]

InitSession ==
    /\ SvcIdle
    /\ rng = 1 /\ ANALYZER = None /\ built = 0
    /\ StoresEmpty
    /\ call = <<>>
    /\ resp = NoResponse
    /\ df = <<>>
    /\ at = "session_service"
    /\ prev = NoSessions

\* create_session: the token is stored with the user and returned.
CreateSession ==
    /\ at = "session_service"
    /\ Cardinality(DOMAIN prev.issued) < MaxSessions
    /\ \E user \in SessionUsers :
          /\ active_sessions' = (Uuid4(prev.issued) :> user) @@ active_sessions
          /\ call' = <<[op |-> "create_session", token |-> Uuid4(prev.issued)]>>
          /\ resp' = <<[token |-> Uuid4(prev.issued), user |-> user]>>
          /\ prev' = [prev EXCEPT !.issued = (Uuid4(prev.issued) :> user) @@ @,
                                  !.was_active = FALSE]
    /\ UNCHANGED <<result, heap, allocated, pc, req, local, served, lastOk, df, at,
                   rng, ANALYZER, built, translate_requests, memory_reactions,
                   memory_users, cache_memory, time_time>>
\* get_user: self._active_sessions.get(token).
GetUser ==
    /\ at = "session_service"
    /\ \E token \in Tokens :
          /\ call' = <<[op |-> "get_user", token |-> token]>>
          /\ resp' = <<IF token \in DOMAIN active_sessions
                       THEN <<active_sessions[token]>> ELSE None>>
          /\ prev' = [prev EXCEPT !.was_active = token \in DOMAIN prev.issued \ prev.revoked]
    /\ UNCHANGED <<result, heap, allocated, pc, req, local, served, lastOk, df, at,
                   rng, ANALYZER, built, storeVars>>
\* logout: whether the token was there, and the token popped.
Logout ==
    /\ at = "session_service"
    /\ \E token \in Tokens :
          /\ call' = <<[op |-> "logout", token |-> token]>>
          /\ resp' = <<token \in DOMAIN active_sessions>>
          /\ active_sessions' = SessionPop(active_sessions, token)
          /\ prev' = [prev EXCEPT !.revoked = @ \cup ({token} \cap DOMAIN prev.issued),
                                  !.was_active = token \in DOMAIN prev.issued \ prev.revoked]
    /\ UNCHANGED <<result, heap, allocated, pc, req, local, served, lastOk, df, at,
                   rng, ANALYZER, built, translate_requests, memory_reactions,
                   memory_users, cache_memory, time_time>>

NextSession == CreateSession \/ GetUser \/ Logout
SpecSession == InitSession /\ [][NextSession]_vars

\* The tokens issued and not logged out since.
ActiveTokens == DOMAIN prev.issued \ prev.revoked

\* C25: get_user(token) returns the session's user iff the token was
\* returned by an earlier create_session and not logged out since;
\* logout(token) returns true exactly when the token was active and
\* invalidates that token only; a logged-out token is never valid again.
C25_SessionLifecycle ==
    /\ DOMAIN active_sessions = ActiveTokens
    /\ \A token \in ActiveTokens : active_sessions[token] = prev.issued[token]
    /\ \A token \in prev.revoked : token \notin DOMAIN active_sessions
    /\ (call # <<>> /\ call[1].op = "get_user") =>
          resp[1] = IF call[1].token \in ActiveTokens
                    THEN <<prev.issued[call[1].token]>> ELSE None
    /\ (call # <<>> /\ call[1].op = "logout") =>
          /\ resp[1] = prev.was_active
          /\ call[1].token \notin DOMAIN active_sessions
\* Two sessions of one user and one of another; the first was logged out
\* (a second logout of it has just returned false), the other two are valid.
C25_Witness ==
    /\ call # <<>>
    /\ call[1] = [op |-> "logout", token |-> 1]
    /\ resp[1] = FALSE
    /\ 1 \in prev.revoked
    /\ DOMAIN active_sessions = {2, 3}
    /\ prev.issued[1] = prev.issued[2]
    /\ prev.issued[3] # prev.issued[1]

-----------------------------------------------------------------------------
(* main.py: enforce_translate_rate_limit, called in sequence                *)
(*                                                                         *)
(* time_time is the clock time.time() reads, in ticks; it never goes back. *)
(* prev is history: per client key the timestamps accepted before the last *)
(* call (earlier), and the buckets as they were before it (before).        *)

\* int(os.getenv("TRANSLATE_RATE_LIMIT", "80")) and
\* int(os.getenv("TRANSLATE_WINDOW_SECONDS", "60")) of a deployment whose
\* environment sets both to a small value.
TRANSLATE_RATE_LIMIT == 2
TRANSLATE_WINDOW_SECONDS == 2
\* The last tick of the clock.
MaxClock == 4

\* request.client.host of the callers.
ClientKeys == {"10.0.0.1", "10.0.0.2"}

\* _translate_requests[client_key] of a defaultdict(deque).
Bucket(requests, client_key) ==
    IF client_key \in DOMAIN requests THEN requests[client_key] ELSE <<>>
\* while bucket and now - bucket[0] > TRANSLATE_WINDOW_SECONDS: bucket.popleft()
RECURSIVE PopExpired_AtWindow(_, _)
PopExpired_AtWindow(bucket, now) ==
    IF bucket # <<>> /\ now - Head(bucket) >= TRANSLATE_WINDOW_SECONDS
    THEN PopExpired_AtWindow(Tail(bucket), now)
    ELSE bucket

RECURSIVE PopExpired(_, _)
PopExpired(bucket, now) ==
    IF bucket # <<>> /\ now - Head(bucket) > TRANSLATE_WINDOW_SECONDS
    THEN PopExpired(Tail(bucket), now)
    ELSE bucket

NoAccepted == [earlier |-> <<>>, before |-> <<>>]

InitRate ==
    /\ SvcIdle
    /\ rng = 1 /\ ANALYZER = None /\ built = 0
    /\ StoresEmpty
    /\ call = <<>>
    /\ resp = NoResponse
    /\ df = <<>>
    /\ at = "rate_limit"
    /\ prev = NoAccepted

\* The clock moves on between two calls.
ClockTick ==
    /\ at = "rate_limit"
    /\ time_time < MaxClock
    /\ time_time' = time_time + 1
    /\ UNCHANGED <<result, heap, allocated, pc, req, local, resp, served, lastOk, call,
                   df, at, rng, ANALYZER, built, prev, active_sessions,
                   translate_requests, memory_reactions, memory_users, cache_memory>>

\* enforce_translate_rate_limit(client_key): the expired entries leave the
\* bucket; a full bucket raises HTTP 429, otherwise now is appended.
EnforceTranslateRateLimit ==
    /\ at = "rate_limit"
    /\ \E client_key \in ClientKeys :
          LET now == time_time
              bucket == PopExpired(Bucket(translate_requests, client_key), now)
              full == Len(bucket) >= TRANSLATE_RATE_LIMIT
          IN /\ call' = <<[op |-> "enforce_translate_rate_limit",
                           client_key |-> client_key, now |-> now]>>
             /\ translate_requests' =
                   (client_key :> (IF full THEN bucket ELSE Append(bucket, now)))
                   @@ translate_requests
             /\ resp' = <<IF full THEN 429 ELSE 200>>
             /\ prev' = [earlier |-> IF call = <<>> \/ resp[1] = 429 THEN prev.earlier
                                     ELSE (call[1].client_key :>
                                             Append(Bucket(prev.earlier, call[1].client_key),
                                                    call[1].now)) @@ prev.earlier,
                         before |-> translate_requests]
    /\ UNCHANGED <<result, heap, allocated, pc, req, local, served, lastOk, df, at,
                   rng, ANALYZER, built, active_sessions, memory_reactions,
                   memory_users, cache_memory, time_time>>

NextRate == ClockTick \/ EnforceTranslateRateLimit
SpecRate == InitRate /\ [][NextRate]_vars

\* The timestamps accepted for a client key so far, the last call included.
Accepted(client_key) ==
    IF call # <<>> /\ call[1].client_key = client_key /\ resp[1] = 200
    THEN Append(Bucket(prev.earlier, client_key), call[1].now)
    ELSE Bucket(prev.earlier, client_key)
\* How many of the timestamps lie in the span from..(from + window).
InSpan(stamps, from) ==
    Cardinality({i \in DOMAIN stamps :
                    stamps[i] >= from /\ stamps[i] <= from + TRANSLATE_WINDOW_SECONDS})

\* C26: per client key, no span of TRANSLATE_WINDOW_SECONDS holds more than
\* TRANSLATE_RATE_LIMIT accepted timestamps; a call is rejected with 429
\* exactly when the client's own accepted timestamps of the last window
\* fill the limit, a rejected call adds nothing to the bucket, and the
\* buckets of the other clients are left as they were.
C26_RateLimitPerClient ==
    /\ \A client_key \in ClientKeys : \A from \in 0..MaxClock :
          InSpan(Accepted(client_key), from) <= TRANSLATE_RATE_LIMIT
    /\ call # <<>> =>
          LET client_key == call[1].client_key
              now == call[1].now
              own == Bucket(prev.earlier, client_key)
          IN /\ resp[1] = 429 <=>
                   InSpan(own, now - TRANSLATE_WINDOW_SECONDS) >= TRANSLATE_RATE_LIMIT
             /\ resp[1] = 429 =>
                   /\ \A i \in DOMAIN translate_requests[client_key] :
                         \E j \in DOMAIN Bucket(prev.before, client_key) :
                            translate_requests[client_key][i] = prev.before[client_key][j]
                   /\ Len(translate_requests[client_key]) <=
                         Len(Bucket(prev.before, client_key))
             /\ \A other \in ClientKeys \ {client_key} :
                   Bucket(translate_requests, other) = Bucket(prev.before, other)
\* A client whose limit was filled by requests at ticks 1 and 3 is rejected
\* at tick 3, the end of the window opened at tick 1, while the other client
\* was accepted at that same tick.
C26_Witness ==
    /\ call # <<>>
    /\ call[1] = [op |-> "enforce_translate_rate_limit",
                  client_key |-> "10.0.0.1", now |-> 1 + TRANSLATE_WINDOW_SECONDS]
    /\ resp[1] = 429
    /\ Len(Accepted("10.0.0.1")) >= TRANSLATE_RATE_LIMIT
    /\ Accepted("10.0.0.1")[Len(Accepted("10.0.0.1")) - TRANSLATE_RATE_LIMIT + 1] = 1
    /\ Len(Accepted("10.0.0.2")) > 0
    /\ Accepted("10.0.0.2")[Len(Accepted("10.0.0.2"))] = 1 + TRANSLATE_WINDOW_SECONDS

-----------------------------------------------------------------------------
(* services/interaction_store.py: InteractionStore in memory mode           *)
(*                                                                         *)
(* memory_reactions is _memory_reactions, keyed by <<user_id, article_id>>;*)
(* time_time is datetime.now(UTC) in ticks, one per call. prev is history: *)
(* per key the reaction type of the last upsert that passed the check      *)
(* (latest), and the store before the last call (before).                  *)

MaxUpserts == 3

VALID_REACTIONS == {"fake", "real", "unsure"}
\* The reaction types a request may carry: the valid ones and others.
ReactionTypes == VALID_REACTIONS \cup {"like"}
ReactionUsers == {"user-1", "user-2"}
ReactionArticles == {"article-a", "article-b"}

\* self._memory_reactions[(user_id, article_id)] = reaction_record
StoreReaction_KeepFirst(reactions, record) ==
    reactions @@ (<<record.userId, record.articleId>> :> record)

StoreReaction(reactions, record) ==
    (<<record.userId, record.articleId>> :> record) @@ reactions

\* The stored reactions of an article, as the keys that hold them.
ReactionsOf(reactions, article_id) ==
    {key \in DOMAIN reactions : reactions[key].articleId = article_id}
\* Counter(...).get(reaction_type, 0)
CountOf(reactions, article_id, reaction_type) ==
    Cardinality({key \in ReactionsOf(reactions, article_id) :
                    reactions[key].reactionType = reaction_type})
\* get_article_reactions(article_id, user_id): the counts, the caller's own
\* reaction and the two scores, in hundredths of a percent.
GetArticleReactions(reactions, article_id, user_id) ==
    LET fake_count == CountOf(reactions, article_id, "fake")
        real_count == CountOf(reactions, article_id, "real")
        unsure_count == CountOf(reactions, article_id, "unsure")
        total == fake_count + real_count + unsure_count
        own == {key \in ReactionsOf(reactions, article_id) :
                   <<reactions[key].userId>> = user_id}
    IN  [articleId |-> article_id,
         counts |-> [fake |-> fake_count, real |-> real_count,
                     unsure |-> unsure_count, total |-> total],
         userReaction |-> IF user_id = None \/ own = {} THEN None
                          ELSE <<reactions[CHOOSE key \in own : TRUE].reactionType>>,
         credibility |-> [credibilityScore |->
                              IF total = 0 THEN 0
                              ELSE RoundHalfEven(real_count * 10000, total),
                          fakeLikelihoodScore |->
                              IF total = 0 THEN 0
                              ELSE RoundHalfEven(fake_count * 10000, total)]]

NoReactions == [latest |-> <<>>, before |-> <<>>]

InitReactions ==
    /\ SvcIdle
    /\ rng = 1 /\ ANALYZER = None /\ built = 0
    /\ StoresEmpty
    /\ call = <<>>
    /\ resp = NoResponse
    /\ df = <<>>
    /\ at = "interaction_store"
    /\ prev = NoReactions

\* upsert_reaction: a reaction type outside VALID_REACTIONS raises
\* ValueError before anything is stored; otherwise the record replaces the
\* one of its (user, article) key and the article's reactions are returned.
UpsertReaction ==
    /\ at = "interaction_store"
    /\ time_time < MaxUpserts
    /\ \E user_id \in ReactionUsers, article_id \in ReactionArticles,
          reaction_type \in ReactionTypes :
          LET reaction_record == [userId |-> user_id, articleId |-> article_id,
                                  reactionType |-> reaction_type,
                                  timestamp |-> time_time + 1]
              stored == StoreReaction(memory_reactions, reaction_record)
          IN /\ call' = <<[op |-> "upsert_reaction", user_id |-> <<user_id>>,
                           article_id |-> article_id, reaction_type |-> reaction_type]>>
             /\ IF reaction_type \notin VALID_REACTIONS
                THEN /\ resp' = <<"ValueError">>
                     /\ memory_reactions' = memory_reactions
                     /\ prev' = [prev EXCEPT !.before = memory_reactions]
                ELSE /\ resp' = <<GetArticleReactions(stored, article_id, <<user_id>>)>>
                     /\ memory_reactions' = stored
                     /\ prev' = [latest |-> (<<user_id, article_id>> :> reaction_type)
                                               @@ prev.latest,
                                 before |-> memory_reactions]
    /\ time_time' = time_time + 1
    /\ UNCHANGED <<result, heap, allocated, pc, req, local, served, lastOk, df, at,
                   rng, ANALYZER, built, active_sessions, translate_requests,
                   memory_users, cache_memory>>
\* GET of an article's reactions, with or without a signed-in user.
ReadReactions ==
    /\ at = "interaction_store"
    /\ \E article_id \in ReactionArticles, user_id \in {None} \cup {<<u>> : u \in ReactionUsers} :
          /\ call' = <<[op |-> "get_article_reactions", user_id |-> user_id,
                        article_id |-> article_id, reaction_type |-> ""]>>
          /\ resp' = <<GetArticleReactions(memory_reactions, article_id, user_id)>>
          /\ prev' = [prev EXCEPT !.before = memory_reactions]
    /\ UNCHANGED <<result, heap, allocated, pc, req, local, served, lastOk, df, at,
                   rng, ANALYZER, built, storeVars>>

NextReactions == UpsertReaction \/ ReadReactions
SpecReactions == InitReactions /\ [][NextReactions]_vars

\* The users whose valid reaction to the article was upserted.
Reacted(article_id) == {key[1] : key \in {k \in DOMAIN prev.latest : k[2] = article_id}}

\* C27: the store holds one reaction per (user, article) that reacted, the
\* type of that user's latest valid upsert; every article's counts add up
\* to total, the number of distinct users that reacted to it; an upsert
\* with another reaction type raises ValueError and changes nothing.
C27_OneReactionPerUserAndArticle ==
    /\ DOMAIN memory_reactions = DOMAIN prev.latest
    /\ \A key \in DOMAIN memory_reactions :
          /\ memory_reactions[key].userId = key[1]
          /\ memory_reactions[key].articleId = key[2]
          /\ memory_reactions[key].reactionType = prev.latest[key]
    /\ \A article_id \in ReactionArticles :
          LET counts == GetArticleReactions(memory_reactions, article_id, None).counts
          IN /\ counts.total = counts.fake + counts.real + counts.unsure
             /\ counts.total = Cardinality(Reacted(article_id))
    /\ (call # <<>> /\ call[1].op = "upsert_reaction") =>
          IF call[1].reaction_type \in VALID_REACTIONS
          THEN /\ resp[1].counts.total = Cardinality(Reacted(call[1].article_id))
               /\ resp[1].userReaction = <<call[1].reaction_type>>
          ELSE /\ resp[1] = "ValueError"
               /\ memory_reactions = prev.before
\* Two users reacted to one article and the first then changed its reaction:
\* the article still counts two reactions, the changed one as unsure.
C27_Witness ==
    /\ call # <<>>
    /\ call[1] = [op |-> "upsert_reaction", user_id |-> <<"user-1">>,
                  article_id |-> "article-a", reaction_type |-> "unsure"]
    /\ prev.before # <<>>
    /\ <<"user-1", "article-a">> \in DOMAIN prev.before
    /\ prev.before[<<"user-1", "article-a">>].reactionType = "fake"
    /\ resp[1].counts = [fake |-> 0, real |-> 1, unsure |-> 1, total |-> 2]

-----------------------------------------------------------------------------
(* services/user_store.py: UserStore in memory mode, POST /signup from two  *)
(* request threads                                                         *)
(*                                                                         *)
(* signup is a plain def, so each request runs create_user on a thread of  *)
(* the pool and nothing orders the threads between two lines. memory_users *)
(* is _memory_users by user id; time_time counts the requests received.    *)
(* prev is history: the user documents create_user stored (created), the   *)
(* store before the last step (before), and whether a request was received *)
(* while another was being handled (overlapped).                           *)

MaxSignups == 3

\* The signup requests sent: username, email, password.
Signups ==
    {[username |-> <<"A","n","n">>, email |-> <<"A","@","x"," ">>, password |-> "secret1"],
     [username |-> <<" ","a","n","n">>, email |-> <<"b","@","x">>, password |-> "secret1"],
     [username |-> <<"B","o","b">>, email |-> <<"a","@","x">>, password |-> "secret1"],
     [username |-> <<"C","y">>, email |-> <<"c","@","x">>, password |-> "secret1"],
     [username |-> <<" "," ">>, email |-> <<"d","@","x">>, password |-> "secret1"],
     [username |-> <<"D","i">>, email |-> <<"d","x">>, password |-> "secret1"]}

\* bcrypt.hashpw(password, bcrypt.gensalt()): a hash of the password under
\* the salt drawn for this request.
Hashpw(password, salt) == <<"$2b$", salt, password>>

\* f"user-{len(self._memory_users) + 1}"
UserId(users) == <<"user-", Cardinality(DOMAIN users) + 1>>

\* The loop over self._memory_users.values(), in insertion order: the
\* message of the first user that has the email or the username, else None.
RECURSIVE DuplicateFrom(_, _, _, _)
DuplicateFrom(users, n, email_lower, username_lower) ==
    IF n > Cardinality(DOMAIN users) THEN None
    ELSE LET user == users[<<"user-", n>>]
         IN  IF user.emailLower = email_lower THEN <<"Email already registered">>
             ELSE IF user.usernameLower = username_lower THEN <<"Username already taken">>
             ELSE DuplicateFrom(users, n + 1, email_lower, username_lower)

NoUsers == [created |-> <<>>, before |-> <<>>, overlapped |-> FALSE]

InitUsers ==
    /\ SvcIdle
    /\ rng = 1 /\ ANALYZER = None /\ built = 0
    /\ StoresEmpty
    /\ call = <<>>
    /\ resp = NoResponse
    /\ df = <<>>
    /\ at = "user_store"
    /\ prev = NoUsers

\* signup lines 147-158 and create_user lines 48-53: the request is
\* validated, then the cleaned fields, the hash and created_at are computed.
SignupEnter(t) ==
    /\ at = "user_store"
    /\ pc[t] = "idle"
    /\ time_time < MaxSignups
    /\ \E request \in Signups :
          LET clean_username == Strip(request.username)
              clean_email == Lower(Strip(request.email))
              invalid == IF clean_username = <<>> THEN <<"Username is required">>
                         ELSE IF clean_email = <<>> \/ "@" \notin Range(clean_email)
                              THEN <<"Valid email is required">>
                         ELSE None
          IN /\ req' = [req EXCEPT ![t] = [seq |-> time_time + 1, kind |-> "signup"]]
             /\ IF invalid # None
                THEN /\ resp' = <<[thread |-> t, status |-> 400, detail |-> invalid[1]]>>
                     /\ UNCHANGED <<pc, local>>
                ELSE /\ pc' = [pc EXCEPT ![t] = "line56"]
                     /\ local' = [local EXCEPT ![t] =
                           [username |-> clean_username,
                            email |-> clean_email,
                            emailLower |-> Lower(Strip(clean_email)),
                            usernameLower |-> Lower(Strip(clean_username)),
                            passwordHash |-> Hashpw(request.password, time_time + 1),
                            createdAt |-> time_time + 1,
                            user_id |-> None]]
                     /\ resp' = resp
    /\ time_time' = time_time + 1
    /\ prev' = [prev EXCEPT !.before = memory_users,
                            !.overlapped = @ \/ \E u \in Threads : pc[u] # "idle"]
    /\ UNCHANGED <<result, heap, allocated, served, lastOk, call, df, at, rng,
                   ANALYZER, built, active_sessions, translate_requests,
                   memory_reactions, memory_users, cache_memory>>
\* create_user lines 56-60: the duplicate loop; signup turns its ValueError
\* into HTTP 409.
SignupCheck(t) ==
    /\ pc[t] = "line56"
    /\ LET duplicate == DuplicateFrom(memory_users, 1, local[t].emailLower,
                                      local[t].usernameLower)
       IN  IF duplicate # None
           THEN /\ resp' = <<[thread |-> t, status |-> 409, detail |-> duplicate[1]]>>
                /\ pc' = [pc EXCEPT ![t] = "idle"]
                /\ local' = [local EXCEPT ![t] = NoLocals]
           ELSE /\ pc' = [pc EXCEPT ![t] = "line62"]
                /\ UNCHANGED <<resp, local>>
    /\ prev' = [prev EXCEPT !.before = memory_users]
    /\ UNCHANGED <<result, heap, allocated, req, served, lastOk, call, df, at, rng,
                   ANALYZER, built, storeVars>>
\* create_user line 62: the id from the number of stored users.
SignupId(t) ==
    /\ pc[t] = "line62"
    /\ pc' = [pc EXCEPT ![t] = "line72"]
    /\ local' = [local EXCEPT ![t].user_id = <<UserId(memory_users)>>]
    /\ prev' = [prev EXCEPT !.before = memory_users]
    /\ UNCHANGED <<result, heap, allocated, req, resp, served, lastOk, call, df, at,
                   rng, ANALYZER, built, storeVars>>
\* create_user lines 63-73 and signup lines 169-173: the document is stored
\* under its id and the user is returned with HTTP 201.
SignupStore(t) ==
    /\ pc[t] = "line72"
    /\ LET user_id == local[t].user_id[1]
           user_doc == [_id |-> user_id,
                        username |-> local[t].username,
                        email |-> local[t].email,
                        passwordHash |-> local[t].passwordHash,
                        createdAt |-> local[t].createdAt,
                        emailLower |-> local[t].emailLower,
                        usernameLower |-> local[t].usernameLower]
       IN  /\ memory_users' = (user_id :> user_doc) @@ memory_users
           /\ resp' = <<[thread |-> t, status |-> 201,
                         detail |-> [id |-> user_id, username |-> local[t].username,
                                     email |-> local[t].email]]>>
           /\ prev' = [prev EXCEPT !.created = Append(@, user_doc),
                                   !.before = memory_users]
    /\ pc' = [pc EXCEPT ![t] = "idle"]
    /\ local' = [local EXCEPT ![t] = NoLocals]
    /\ UNCHANGED <<result, heap, allocated, req, served, lastOk, call, df, at, rng,
                   ANALYZER, built, active_sessions, translate_requests,
                   memory_reactions, cache_memory, time_time>>

SignupStep(t) == SignupEnter(t) \/ SignupCheck(t) \/ SignupId(t) \/ SignupStore(t)
NextUsers == \E t \in Threads : SignupStep(t)
SpecUsers == InitUsers /\ [][NextUsers]_vars

\* No two stored users with one email or one username, every created user
\* under an id of its own and still stored as created.
UsersUnique ==
    /\ \A a, b \in DOMAIN memory_users :
          a # b => /\ memory_users[a].emailLower # memory_users[b].emailLower
                   /\ memory_users[a].usernameLower # memory_users[b].usernameLower
    /\ \A i, j \in DOMAIN prev.created :
          i # j => /\ prev.created[i]._id # prev.created[j]._id
                   /\ prev.created[i].emailLower # prev.created[j].emailLower
                   /\ prev.created[i].usernameLower # prev.created[j].usernameLower
    /\ \A i \in DOMAIN prev.created :
          /\ prev.created[i]._id \in DOMAIN memory_users
          /\ memory_users[prev.created[i]._id] = prev.created[i]
\* A signup answered 409 or 400 left the store as it was.
RejectedUnchanged ==
    (resp # NoResponse /\ resp[1].status \in {400, 409}) => memory_users = prev.before

\* C28: whatever the interleaving of the signup requests, the stored users
\* have distinct lower-cased emails, distinct lower-cased usernames and
\* distinct ids, none is overwritten, and a rejected create_user leaves the
\* store unchanged.
C28_UsersUniqueInAnyInterleaving == UsersUnique /\ RejectedUnchanged

\* Signups handled one after the other keep the users unique.
SequentialSignupsKeepUnique == ~prev.overlapped => (UsersUnique /\ RejectedUnchanged)

-----------------------------------------------------------------------------
(* services/sarvam_translator.py: SarvamTranslator with the in-memory cache *)
(*                                                                         *)
(* cache_memory is _cache_memory by cache key. at tells whether a call is  *)
(* in its retry loop ("line172") or none is running; call holds the last   *)
(* call's arguments. prev is history: the cache before the last call       *)
(* (before) and what the endpoint did on each HTTP attempt of it (script). *)

\* SARVAM_MAX_RETRIES
MaxRetries == 2

SUPPORTED_LANGUAGES == {<<"e","n">>, <<"h","i">>, <<"t","e">>, <<"t","a">>, <<"k","n">>}
\* SARVAM_API_KEY of a configured deployment.
ApiKey == <<"k","e","y">>

\* A JSON value of a response body: an object by its members, a string by
\* its characters, a number, or an array.
JsonObject(members) == [type |-> "dict", value |-> members]
JsonString(s) == [type |-> "str", value |-> s]
JsonNumber(n) == [type |-> "int", value |-> n]
JsonArray == [type |-> "list", value |-> <<>>]

\* What requests.post and response.json() come to on one attempt.
HttpOutcomes ==
    {[kind |-> "ConnectionError", status_code |-> 0, json |-> None],
     [kind |-> "response", status_code |-> 500, json |-> None],
     [kind |-> "response", status_code |-> 200, json |-> None],
     [kind |-> "response", status_code |-> 200,
      json |-> <<JsonObject([translated_text |-> JsonString(<<" ","n","a","m","a","s","t","e"," ">>)])>>],
     [kind |-> "response", status_code |-> 200,
      json |-> <<JsonObject([translated_text |-> JsonString(<<" "," ">>),
                             data |-> JsonObject([text |-> JsonString(<<"v","a","n","a","k","k","a","m">>)])])>>],
     [kind |-> "response", status_code |-> 200,
      json |-> <<JsonObject([translation |-> JsonNumber(42)])>>],
     [kind |-> "response", status_code |-> 200, json |-> <<JsonArray>>]}
\* The texts and target languages requested.
TranslateTexts == {<<" ","h","e","l","l","o">>, <<" ">>}
TargetLangs == {<<"h","i">>, <<" ","T","A">>, <<"e","n">>, <<"f","r">>}

\* hashlib.sha256(text): a digest that tells the texts apart.
Sha256(text) == <<"sha256", text>>
\* _build_cache_key
BuildCacheKey(text, target_lang) == <<Sha256(text), ":", target_lang>>

\* dict.get(key) of a JSON object.
JsonGet(members, key) == IF key \in DOMAIN members THEN <<members[key]>> ELSE None
\* The first of the four candidate members that is a string with something
\* left after strip(), stripped; None when there is none.
FirstText(members) ==
    LET keys == <<"translated_text", "translatedText", "translation", "text">>
        usable == {i \in DOMAIN keys :
                     /\ JsonGet(members, keys[i]) # None
                     /\ members[keys[i]].type = "str"
                     /\ Strip(members[keys[i]].value) # <<>>}
    IN  IF usable = {} THEN None
        ELSE <<Strip(members[keys[CHOOSE i \in usable : \A j \in usable : i <= j]].value)>>
\* _extract_translated_text: payload.get raises AttributeError on a body
\* that is not a JSON object.
ExtractTranslatedText(payload) ==
    IF payload.type # "dict" THEN [raised |-> "AttributeError", text |-> None]
    ELSE IF FirstText(payload.value) # None
         THEN [raised |-> "", text |-> FirstText(payload.value)]
    ELSE IF JsonGet(payload.value, "data") # None /\ payload.value.data.type = "dict"
         THEN [raised |-> "", text |-> FirstText(payload.value.data.value)]
    ELSE [raised |-> "", text |-> None]

\* Lines 172-179 of one attempt: the translated text, or what is raised.
Attempt(outcome) ==
    IF outcome.kind # "response" THEN [raised |-> "RequestException", text |-> None]
    ELSE IF outcome.status_code >= 400 THEN [raised |-> "SarvamTranslatorError", text |-> None]
    ELSE IF outcome.json = None THEN [raised |-> "ValueError", text |-> None]
    ELSE LET extracted == ExtractTranslatedText(outcome.json[1])
         IN  IF extracted.raised # "" THEN extracted
             ELSE IF extracted.text = None
                  THEN [raised |-> "SarvamTranslatorError", text |-> None]
             ELSE extracted
Translated(text, target, from_cache, provider) ==
    [raised |-> "", translatedText |-> text, targetLang |-> target,
     fromCache |-> from_cache, provider |-> provider]
Raised(error) ==
    [raised |-> error, translatedText |-> <<>>, targetLang |-> <<>>,
     fromCache |-> FALSE, provider |-> ""]

NoTranslations == [before |-> <<>>, script |-> <<>>]

InitTranslate ==
    /\ SvcIdle
    /\ rng = 1 /\ ANALYZER = None /\ built = 0
    /\ StoresEmpty
    /\ call = <<>>
    /\ resp = NoResponse
    /\ df = <<>>
    /\ at = "sarvam_translator"
    /\ prev = NoTranslations

\* translate_text lines 130-168: the arguments are cleaned and checked, an
\* English target and a cached translation return at once, and otherwise
\* the retry loop is entered.
TranslateText ==
    /\ at = "sarvam_translator"
    /\ \E text \in TranslateTexts, target_lang \in TargetLangs :
          LET clean_text == Strip(text)
              clean_target == Lower(Strip(target_lang))
              cached == JsonGet(cache_memory, BuildCacheKey(clean_text, clean_target))
          IN /\ call' = <<[op |-> "translate_text", text |-> text,
                           target_lang |-> target_lang]>>
             /\ IF clean_text = <<>> \/ clean_target \notin SUPPORTED_LANGUAGES
                THEN resp' = <<Raised("SarvamTranslatorError")>> /\ at' = at
                ELSE IF clean_target = <<"e","n">>
                THEN /\ resp' = <<Translated(clean_text, clean_target, TRUE, "identity")>>
                     /\ at' = at
                ELSE IF cached # None /\ cached[1] # <<>>
                THEN /\ resp' = <<Translated(cached[1], clean_target, TRUE, "sarvam")>>
                     /\ at' = at
                ELSE IF ApiKey = <<>>
                THEN resp' = <<Raised("SarvamTranslatorError")>> /\ at' = at
                ELSE resp' = resp /\ at' = "line172"
    /\ prev' = [before |-> cache_memory, script |-> <<>>]
    /\ UNCHANGED <<result, heap, allocated, pc, req, local, served, lastOk, df,
                   rng, ANALYZER, built, storeVars>>
\* One pass of the loop of lines 170-195, the endpoint doing outcome: the
\* text is cached and returned; or a caught error ends the call after the
\* last attempt and else sleeps before the next one; or another error
\* leaves translate_text as it is.
TranslateAttempt ==
    /\ at = "line172"
    /\ \E outcome \in HttpOutcomes :
          LET attempt == Len(prev.script)
              clean_text == Strip(call[1].text)
              clean_target == Lower(Strip(call[1].target_lang))
              made == Attempt(outcome)
          IN /\ prev' = [prev EXCEPT !.script = Append(@, outcome)]
             /\ IF made.raised = ""
                THEN /\ cache_memory' = (BuildCacheKey(clean_text, clean_target) :> made.text[1])
                                        @@ cache_memory
                     /\ resp' = <<Translated(made.text[1], clean_target, FALSE, "sarvam")>>
                     /\ at' = "sarvam_translator"
                ELSE IF made.raised \in {"RequestException", "ValueError",
                                         "SarvamTranslatorError"}
                THEN /\ cache_memory' = cache_memory
                     /\ IF attempt >= MaxRetries
                        THEN /\ resp' = <<Raised("SarvamTranslatorError")>>
                             /\ at' = "sarvam_translator"
                        ELSE resp' = resp /\ at' = at
                ELSE /\ cache_memory' = cache_memory
                     /\ resp' = <<Raised(made.raised)>>
                     /\ at' = "sarvam_translator"
    /\ UNCHANGED <<result, heap, allocated, pc, req, local, served, lastOk, call, df,
                   rng, ANALYZER, built, active_sessions, translate_requests,
                   memory_reactions, memory_users, time_time>>

NextTranslate == TranslateText \/ TranslateAttempt
SpecTranslate == InitTranslate /\ [][NextTranslate]_vars

\* The last call asked for a supported non-English target and has ended.
NonEnglishCall ==
    /\ call # <<>>
    /\ at = "sarvam_translator"
    /\ Strip(call[1].text) # <<>>
    /\ Lower(Strip(call[1].target_lang)) \in SUPPORTED_LANGUAGES \ {<<"e","n">>}
\* The cache key of the last call.
CallKey == BuildCacheKey(Strip(call[1].text), Lower(Strip(call[1].target_lang)))
\* The attempts of the script whose response carries a translated text.
Yielding(script) ==
    {n \in DOMAIN script :
        /\ script[n].kind = "response" /\ script[n].status_code = 200
        /\ script[n].json # None
        /\ script[n].json[1].type = "dict"
        /\ \/ FirstText(script[n].json[1].value) # None
           \/ /\ "data" \in DOMAIN script[n].json[1].value
              /\ script[n].json[1].value.data.type = "dict"
              /\ FirstText(script[n].json[1].value.data.value) # None}
\* What the claim states of the last call.
RetriesAsSpecified ==
    IF CallKey \in DOMAIN prev.before
    THEN /\ prev.script = <<>>
         /\ resp[1].raised = "" /\ resp[1].fromCache
         /\ resp[1].translatedText = prev.before[CallKey]
         /\ cache_memory = prev.before
    ELSE /\ Len(prev.script) <= MaxRetries + 1
         /\ IF Yielding(prev.script) # {}
            THEN /\ Yielding(prev.script) = {Len(prev.script)}
                 /\ resp[1].raised = "" /\ ~resp[1].fromCache
                 /\ CallKey \in DOMAIN cache_memory
                 /\ cache_memory[CallKey] = resp[1].translatedText
            ELSE /\ resp[1].raised = "SarvamTranslatorError"
                 /\ Len(prev.script) = MaxRetries + 1
                 /\ cache_memory = prev.before

\* C29: a non-English request without a cached translation makes at most
\* max_retries + 1 HTTP attempts, returns the text of the first attempt
\* that yields one and caches it, and otherwise raises SarvamTranslatorError
\* after the last attempt with the cache unchanged; a cached request makes
\* no HTTP attempt and reports fromCache.
C29_RetriesThenCacheOrError == NonEnglishCall => RetriesAsSpecified

\* The claim holds of every call whose 200 responses all carry a JSON object.
ObjectBodiesRetryAsSpecified ==
    (/\ NonEnglishCall
     /\ \A n \in DOMAIN prev.script :
           prev.script[n].json # None => prev.script[n].json[1].type = "dict")
    => RetriesAsSpecified

====
